---- MODULE Spec2Model ----
(***************************************************************************)
(* Verification model of the dragon-fight entity simulation core           *)
(* (src/entities.c, src/level.c, src/main.c).                              *)
(*                                                                         *)
(* Time.  The simulation runs on a fixed step fixedDt = 1/60 s             *)
(* (src/main.c:425).  Every timer of the program is a float that is only   *)
(* ever set to a literal and then stepped by fixedDt, so a timer is        *)
(* modelled by the NUMBER OF STEPS it still takes until the code's test    *)
(* `<= 0.0f` (countdowns) or `>= limit` (accumulators) succeeds.  The      *)
(* step counts are those of IEEE float32 arithmetic, which differ from     *)
(* limit*60 where rounding leaves a residue: 2.0f - 120*(1/60f) is         *)
(* 1.2e-6 > 0, so DEATH_TIME lasts 121 steps, and a countdown never lands  *)
(* on exactly 0.0f.  A death timer that ran out is therefore negative;     *)
(* it is modelled by the value TIMER_RAN_OUT, distinct from 0 (= 0.0f,     *)
(* never started), because the code tests `deathTimer == 0.0f`.            *)
(*                                                                         *)
(* Geometry.  Positions, velocities and hitboxes are not state of this     *)
(* model.  Every geometric test of the code (rectangle intersection,       *)
(* distance thresholds, collision with the ground) is an input of the      *)
(* step that performs it, drawn from the set of outcomes the test can      *)
(* have; the code's own conditions around the test (health > 0, registry   *)
(* order, bounds checks) are modelled as written.                          *)
(***************************************************************************)
EXTENDS Integers, Sequences, FiniteSets, TLC

(***************************************************************************)
(* Program constants                                                       *)
(***************************************************************************)
\* src/entities.h:73-81 animation indices
ANIM_IDLE == 0
ANIM_WALK == 1
ANIM_JUMP == 2
ANIM_JAB == 3
ANIM_PUNCH == 4
ANIM_KICK == 5
ANIM_JUMP_KICK == 6
ANIM_DIVE_KICK == 7
ANIM_HURT == 8

\* src/entities.h:84-88
PLAYER_MAX_HEALTH == 100
ENEMY_MAX_HEALTH == 50
MAX_ENEMIES == 10

\* src/entities.h:37-44 damage values and default hit window
ATTACK_DAMAGE == 15
PUNCH_DAMAGE == 18
KICK_DAMAGE == 20
ENEMY_DAMAGE == 10
HIT_FRAMES_START == 1
HIT_FRAMES_END == 2
\* src/entities.c:855 bonus damage of a throw
THROW_DAMAGE == 5
THROW_VELOCITY_X == 400
THROW_VELOCITY_Y == 200
KNOCKBACK_FORCE == 200
MAX_KNOCKBACK_SPEED == 220
\* src/entities.c:744 air attacks add 5 to the ground damage
AIR_DAMAGE_BONUS == 5

\* Countdowns, in steps of fixedDt until the float value is <= 0.0f.
\* src/entities.h:48 DEATH_TIME 2.0f
DEATH_TIME == 121
\* src/entities.h:50 PLAYER_STUN_TIME 0.35f
PLAYER_STUN_TIME == 21
\* src/entities.h:51 ENEMY_STUN_TIME 0.45f
ENEMY_STUN_TIME == 27
\* src/entities.h:36 ATTACK_COOLDOWN 0.5f
ATTACK_COOLDOWN == 30
\* src/entities.h:62 ENEMY_RETREAT_TIME 1.5f
ENEMY_RETREAT_TIME == 91
\* src/entities.c:35,37,39 player profile cooldowns 0.25f, 0.45f, 0.6f
JAB_COOLDOWN == 16
PUNCH_COOLDOWN == 27
KICK_COOLDOWN == 36
\* src/entities.c:744 air attack cooldown 0.5f
AIR_COOLDOWN == 30
\* src/entities.c:41,43 enemy profile cooldowns 0.8f, 1.0f
ENEMY_PUNCH_COOLDOWN == 49
ENEMY_KICK_COOLDOWN == 61
\* src/entities.c:838 stun of a grabbed enemy 1.0f; :854 of a thrown one 0.5f
GRAB_STUN == 61
THROW_STUN == 30
\* src/entities.c:1327,1357 evade timers 0.5f, 0.4f
EVADE_TIME_CHASE == 30
EVADE_TIME_POSITION == 24

\* Accumulators, in steps of fixedDt until the code's comparison succeeds.
\* src/entities.h:47 IDLE_DELAY 0.2f, tested with `>`
IDLE_DELAY == 13
\* src/entities.h:49 ATTACK_TIMEOUT 1.5f, tested with `>=`
ATTACK_TIMEOUT == 91
\* src/entities.c:1635 minimum enemy attack duration 0.5f, tested with `>=`
ENEMY_ATTACK_MIN == 30

\* Animation timer: the float timer counts in units of 1/30 here; one frame
\* is 1.0f = 30 units.  dt*12.0f is 6 units, dt*8.0f is 4 units
\* (src/entities.c:205-212).
ANIM_ONE == 30
ANIM_FAST_STEP == 6
ANIM_SLOW_STEP == 4

\* Frame counts of the clips (src/assets.c:20-33).
PLAYER_IDLE_FRAMES == 4
PLAYER_WALK_FRAMES == 10
PLAYER_JUMP_FRAMES == 4
PLAYER_JAB_FRAMES == 3
PLAYER_PUNCH_FRAMES == 3
PLAYER_KICK_FRAMES == 5
PLAYER_JUMP_KICK_FRAMES == 3
PLAYER_DIVE_KICK_FRAMES == 5
PLAYER_HURT_FRAMES == 2
ENEMY_IDLE_FRAMES == 4
ENEMY_WALK_FRAMES == 4
ENEMY_PUNCH_FRAMES == 3
ENEMY_HURT_FRAMES == 4

\* The value of a death timer that was counted down past 0.0f (negative).
TIMER_RAN_OUT == -1

Max(a, b) == IF a >= b THEN a ELSE b
Min(a, b) == IF a <= b THEN a ELSE b

\* The least element of a non-empty set of integers.
MinOf(S) == CHOOSE x \in S : \A y \in S : x <= y

(***************************************************************************)
(* Utility functions                                                       *)
(***************************************************************************)
SafeClamp(value, min, max) ==
  IF value < min THEN min ELSE IF value > max THEN max ELSE value

\* One step of a countdown that the code saturates at zero
\* (`t -= dt; if (t < 0) t = 0`).
CountDown(t) == IF t > 0 THEN t - 1 ELSE t

\* One step of a countdown that the code does not saturate (`t -= dt`): the
\* last step leaves a negative value.
StepTimer(t) == IF t = 1 THEN TIMER_RAN_OUT ELSE t - 1

(***************************************************************************)
(* Attack profiles (src/entities.c:34-43)                                  *)
(***************************************************************************)
PLAYER_ATTACK_JAB_PROFILE ==
  [animIndex |-> ANIM_JAB, damage |-> ATTACK_DAMAGE, cooldown |-> JAB_COOLDOWN,
   hitFrameStart |-> 1, hitFrameEnd |-> 1]
PLAYER_ATTACK_PUNCH_PROFILE ==
  [animIndex |-> ANIM_PUNCH, damage |-> PUNCH_DAMAGE, cooldown |-> PUNCH_COOLDOWN,
   hitFrameStart |-> 1, hitFrameEnd |-> 2]
PLAYER_ATTACK_KICK_PROFILE ==
  [animIndex |-> ANIM_KICK, damage |-> KICK_DAMAGE, cooldown |-> KICK_COOLDOWN,
   hitFrameStart |-> 2, hitFrameEnd |-> 3]
ENEMY_ATTACK_PUNCH_PROFILE ==
  [animIndex |-> ANIM_PUNCH, damage |-> ENEMY_DAMAGE, cooldown |-> ENEMY_PUNCH_COOLDOWN,
   hitFrameStart |-> 1, hitFrameEnd |-> 1]
ENEMY_ATTACK_KICK_PROFILE ==
  [animIndex |-> ANIM_KICK, damage |-> KICK_DAMAGE, cooldown |-> ENEMY_KICK_COOLDOWN,
   hitFrameStart |-> 2, hitFrameEnd |-> 3]

(***************************************************************************)
(* Animation sequencer                                                     *)
(***************************************************************************)
RECURSIVE AnimAdvanceLooping(_)
\* (mutant) the clip starts over after its last frame
AnimAdvanceLooping(anim) ==
  IF anim.timer >= ANIM_ONE
  THEN AnimAdvanceLooping([anim EXCEPT !.timer = @ - ANIM_ONE,
                             !.currentFrame = IF @ + 1 >= anim.totalFrames
                                              THEN 0 ELSE @ + 1])
  ELSE anim

RECURSIVE AnimAdvance(_)
\* The `while (timer >= 1.0f)` loop of UpdateAnimation.
AnimAdvance(anim) ==
  IF anim.timer >= ANIM_ONE
  THEN LET a1 == [anim EXCEPT !.timer = @ - ANIM_ONE, !.currentFrame = @ + 1]
       IN IF a1.currentFrame >= a1.totalFrames
          THEN [a1 EXCEPT !.currentFrame = a1.totalFrames - 1]
          ELSE AnimAdvance(a1)
  ELSE anim

\* anim->timer += dt * frameRate
AnimStep(anim) ==
  [anim EXCEPT !.timer =
     @ + (IF anim.totalFrames <= 3 THEN ANIM_FAST_STEP ELSE ANIM_SLOW_STEP)]

\* The final clamp of the frame index.
AnimClamp(anim) ==
  [anim EXCEPT !.currentFrame = SafeClamp(@, 0, anim.totalFrames - 1)]

UpdateAnimation(anim) ==
  IF anim.totalFrames <= 0
  THEN [anim EXCEPT !.currentFrame = 0]
  ELSE AnimClamp(AnimAdvance(AnimStep(anim)))

(***************************************************************************)
(* Entities                                                                *)
(*                                                                         *)
(* `rising` stands for velocity.y < 0 and `falling` for velocity.y > 0;    *)
(* `hitboxAtPos` says that `hitbox` is the rectangle UpdatePhysics derives *)
(* from the current `position` and size.  An enemy that is grabbed stands  *)
(* elsewhere than at the place its holder then carries it to.              *)
(* The field id and the fields with                                        *)
(* the prefix g_ are history fields: the code has no such data, they       *)
(* record what the code did so that the properties can be stated.          *)
(*   id          identity given at spawn (enemies)                         *)
(*   g_hpBefore, g_dmg   health before, and amount of, the last            *)
(*               DamageEntity call on this entity                          *)
(*   g_killed    a DamageEntity call took the health to 0 while the death  *)
(*               timer was not started                                     *)
(*   g_cues      number of death cues played for this entity               *)
(*   g_swing     an attack started by this entity is in progress           *)
(*   g_hits      damage applications made by the current/last attack       *)
(*   g_always    a living opponent intersected the attack hitbox on every  *)
(*               tick of the current/last attack so far, and the attack    *)
(*               was not cancelled by damage                               *)
(*   g_ended     the last attack has completed or was cancelled            *)
(*   g_startTick the attack was started in the update now in progress      *)
(*   g_startHit  the attack dealt damage in the update that started it     *)
(*   g_deadTicks UpdateEnemies calls survived since the health reached 0   *)
(*   g_heldId    id of the enemy this player grabbed (0: none)             *)
(*   g_acted     a key took effect in the last ProcessPlayerInput          *)
(*   g_deadInput a key took effect while health was 0                      *)
(*   g_seen      how often the loop of the last UpdateEnemies call came    *)
(*               to the enemy, and g_slot the index and activeEnemies at   *)
(*               that moment                                               *)
(*   g_grabHp    the health the enemy had when it was last grabbed (-1:    *)
(*               never grabbed)                                            *)
(*   g_stuck     the grab key was released in the last ProcessPlayerInput  *)
(*               while the player held an enemy, and nothing was thrown    *)
(*   g_vel       the speeds (pixels per second; x away from the player, y  *)
(*               upward) that a throw and DamageEntity wrote to velocity   *)
(*   g_throw     the last throw of the enemy: its velocity and health as   *)
(*               the release left them, the health before, and the grab    *)
(*               reference and state the release gave the player           *)
(*   g_locked    `canControl` was false in the last ProcessPlayerInput     *)
(*   g_late      in the last ProcessPlayerInput a grab or a release took   *)
(*               effect after an attack had been started in the same call  *)
(*   g_starts    number of times the death timer was started               *)
(*   g_clip      the clip whose frames `anim` is counting                  *)
(*   g_stun      the stun time the last DamageEntity call that the entity  *)
(*               survived gave it                                          *)
(*   g_sinceHit  UpdateEnemies calls since a player's hit that the enemy   *)
(*               survived, while wasHurt stays set (counted up to          *)
(*               RetreatBound + 1)                                         *)
(*   g_rec       the last DamageEntity call on the entity: whether there   *)
(*               was one, whether the attacker was a player, the attack    *)
(*               fields as the call left them, whether no attack was       *)
(*               started since (on), the steps of the recovery cooldown    *)
(*               still to go (left), the hits the entity landed while on   *)
(*               (stray), whether it started an attack before the recovery *)
(*               cooldown had elapsed (early), whether the call cut an     *)
(*               attack of the entity short (cut), the damage, the health  *)
(*               and death timer before the call (pre) and the fields the  *)
(*               death trigger writes as they were at the return (post)    *)
(*   g_ai        what the enemy's AI step of the last UpdateEnemies did:   *)
(*               whether it ran, whether every living player was beyond    *)
(*               ENEMY_SIGHT_DIST, aiState and vx as it left them, whether *)
(*               it found a target and whether it then took the enemy for  *)
(*               a boss                                                    *)
(*   g_phases    the phases the update in progress has run so far, in      *)
(*               order; empty between updates                              *)
(*   g_age       UpdatePlayer calls completed since the current attack     *)
(*               was started, the starting one included (counted up to     *)
(*               ATTACK_TIMEOUT + 1)                                       *)
(***************************************************************************)
\* The stun time plus the retreat time, in calls of UpdateEnemies.
RetreatBound == ENEMY_STUN_TIME + ENEMY_RETREAT_TIME

\* (mutant) the recovery cooldown is the same for every attacker
RecoveryCooldownFlat(isPlayerAttacker) == ATTACK_COOLDOWN

\* `recoveryCooldown` of DamageEntity.
RecoveryCooldown(isPlayerAttacker) ==
  IF isPlayerAttacker
  THEN Max(ENEMY_ATTACK_PUNCH_PROFILE.cooldown, ATTACK_COOLDOWN)
  ELSE ATTACK_COOLDOWN

\* (history) no DamageEntity call yet.
NoDamage ==
  [taken |-> FALSE, byPlayer |-> FALSE, isAttacking |-> FALSE,
   attackDamage |-> 0, attackHasHit |-> FALSE, attackCooldown |-> 0,
   on |-> FALSE, left |-> 0, stray |-> 0, early |-> FALSE, cut |-> FALSE,
   dmg |-> 0, pre |-> [health |-> 0, deathTimer |-> 0],
   post |-> [health |-> 0, deathTimer |-> 0, state |-> "IDLE", stunTimer |-> 0,
             rising |-> FALSE, falling |-> FALSE, grounded |-> FALSE]]

\* (history) DamageEntity returns t.
DamageRecord(t, isPlayerAttacker) ==
  [t EXCEPT !.g_rec =
     [taken |-> TRUE, byPlayer |-> isPlayerAttacker,
      isAttacking |-> t.isAttacking, attackDamage |-> t.attackDamage,
      attackHasHit |-> t.attackHasHit, attackCooldown |-> t.attackCooldown,
      on |-> TRUE, left |-> RecoveryCooldown(isPlayerAttacker),
      stray |-> 0, early |-> t.g_rec.early, cut |-> t.g_rec.cut,
      dmg |-> t.g_rec.dmg, pre |-> t.g_rec.pre,
      post |-> [health |-> t.health, deathTimer |-> t.deathTimer,
                state |-> t.state, stunTimer |-> t.stunTimer,
                rising |-> t.rising, falling |-> t.falling,
                grounded |-> t.grounded]]]

\* (history) no AI step in this update.
NoAI ==
  [ran |-> FALSE, far |-> FALSE, aiState |-> "IDLE", vx |-> 0,
   target |-> FALSE, isBoss |-> FALSE, hp |-> 0]

\* memset (e, 0, sizeof (Entity)).  Of an enemy's velocity.x the model keeps
\* vx: 0, or the direction, 1 towards the player it deals with and -1 away
\* from it.  How friction wears down a knockback is not modelled.
ZeroEntity ==
  [health |-> 0, maxHealth |-> 0, currentAnimIndex |-> 0, lastAnimIndex |-> 0,
   anim |-> [currentFrame |-> 0, timer |-> 0, totalFrames |-> 0],
   isAttacking |-> FALSE, attackCooldown |-> 0, attackDamage |-> 0,
   attackTimer |-> 0, attackHasHit |-> FALSE, deathTimer |-> 0, idleTimer |-> 0,
   state |-> "IDLE", stunTimer |-> 0, hitFrameStart |-> 0, hitFrameEnd |-> 0,
   grounded |-> FALSE, aiState |-> "IDLE", aiTimer |-> 0, wasHurt |-> FALSE,
   grabbedEnemyIndex |-> 0, rising |-> FALSE, falling |-> FALSE,
   hitboxAtPos |-> FALSE,
   id |-> 0, g_hpBefore |-> 0, g_dmg |-> 0, g_killed |-> FALSE, g_cues |-> 0,
   g_swing |-> FALSE, g_hits |-> 0, g_always |-> FALSE, g_ended |-> FALSE,
   g_startTick |-> FALSE, g_startHit |-> FALSE, g_deadTicks |-> 0,
   g_heldId |-> 0, g_acted |-> FALSE, g_deadInput |-> FALSE, g_starts |-> 0,
   g_locked |-> FALSE, g_late |-> FALSE, g_stuck |-> FALSE, g_grabHp |-> -1,
   g_seen |-> 0, g_slot |-> [i |-> 0, n |-> 1],
   g_vel |-> [x |-> 0, y |-> 0],
   g_throw |-> [on |-> FALSE, x |-> 0, y |-> 0, from |-> 0, to |-> 0,
                ref |-> 0, state |-> "IDLE"],
   g_clip |-> 0, g_age |-> 0, g_phases |-> << >>, g_stun |-> 0,
   vx |-> 0, g_ai |-> NoAI, g_sinceHit |-> 0, g_rec |-> NoDamage]

\* (history) the update of e enters phase ph.
Phase(e, ph) == [e EXCEPT !.g_phases = Append(@, ph)]

InitPlayer ==
  [ZeroEntity EXCEPT
     !.anim = [currentFrame |-> 0, timer |-> 0, totalFrames |-> PLAYER_IDLE_FRAMES],
     !.health = PLAYER_MAX_HEALTH, !.maxHealth = PLAYER_MAX_HEALTH,
     !.currentAnimIndex = ANIM_IDLE, !.lastAnimIndex = -1,
     !.state = "IDLE", !.hitFrameStart = HIT_FRAMES_START,
     !.hitFrameEnd = HIT_FRAMES_END, !.grounded = TRUE,
     !.hitboxAtPos = TRUE, !.grabbedEnemyIndex = -1]

InitEnemy(newId) ==
  [ZeroEntity EXCEPT
     !.anim = [currentFrame |-> 0, timer |-> 0, totalFrames |-> ENEMY_IDLE_FRAMES],
     !.health = ENEMY_MAX_HEALTH, !.maxHealth = ENEMY_MAX_HEALTH,
     !.currentAnimIndex = ANIM_IDLE, !.lastAnimIndex = -1,
     !.aiState = "IDLE", !.state = "IDLE",
     !.hitFrameStart = HIT_FRAMES_START, !.hitFrameEnd = HIT_FRAMES_END,
     !.grounded = TRUE, !.hitboxAtPos = TRUE, !.id = newId]

(***************************************************************************)
(* Combat resolution                                                       *)
(***************************************************************************)
\* INT_MAX of <limits.h>; only an upper clamp bound here.
INT_MAX == 2147483647

\* (mutant) the subtraction without the clamp
DamagedHealthUnclamped(target, dmg) == target.health - dmg

\* The new health DamageEntity computes.
DamagedHealth(target, dmg) ==
  SafeClamp(target.health - dmg, 0,
            IF target.maxHealth > 0 THEN target.maxHealth ELSE INT_MAX)

\* Health, attack cancellation, recovery and the hurt pose.
DamageApply(target, dmg, isPlayerAttacker) ==
  [target EXCEPT
     !.health = DamagedHealth(target, dmg),
     !.isAttacking = FALSE, !.attackDamage = 0, !.attackTimer = 0,
     !.attackHasHit = FALSE,
     !.attackCooldown =
        Max(target.attackCooldown, RecoveryCooldown(isPlayerAttacker)),
     !.idleTimer = 0,
     !.hitFrameStart = HIT_FRAMES_START, !.hitFrameEnd = HIT_FRAMES_END,
     !.currentAnimIndex = ANIM_HURT, !.lastAnimIndex = -1,
     !.state = "HURT", !.vx = -1, !.g_rec.cut = target.isAttacking,
     !.g_vel.x = SafeClamp(KNOCKBACK_FORCE, - MAX_KNOCKBACK_SPEED,
                           MAX_KNOCKBACK_SPEED),
     !.g_rec.dmg = dmg,
     !.g_rec.pre = [health |-> target.health, deathTimer |-> target.deathTimer],
     !.g_hpBefore = target.health, !.g_dmg = dmg,
     !.g_always = IF target.g_swing THEN FALSE ELSE @,
     !.g_swing = FALSE, !.g_ended = target.g_swing \/ target.g_ended]

\* The victim's stun: an enemy hit by a player retreats, a player is stunned.
DamageStun(t, isPlayerAttacker) ==
  IF isPlayerAttacker
  THEN [t EXCEPT !.aiState = "RETREAT", !.aiTimer = ENEMY_RETREAT_TIME,
                 !.wasHurt = TRUE, !.stunTimer = ENEMY_STUN_TIME,
                 !.g_sinceHit = 0,
                 !.g_stun = IF t.health > 0 THEN ENEMY_STUN_TIME ELSE @]
  ELSE [t EXCEPT !.stunTimer = PLAYER_STUN_TIME,
                 !.g_stun = IF t.health > 0 THEN PLAYER_STUN_TIME ELSE @]

\* (mutant) the death timer set to a single step
DamageDeathAtOnce(t) ==
  IF t.health <= 0 /\ t.deathTimer = 0
  THEN [t EXCEPT !.deathTimer = 1, !.state = "DEAD",
                 !.stunTimer = 0, !.rising = FALSE, !.falling = FALSE,
                 !.grounded = TRUE,
                 !.g_killed = TRUE, !.g_starts = @ + 1]
  ELSE t

\* (mutant) the death trigger leaves the stun timer running
DamageDeathKeepsStun(t) ==
  IF t.health <= 0 /\ t.deathTimer = 0
  THEN [t EXCEPT !.deathTimer = DEATH_TIME, !.state = "DEAD",
                 !.rising = FALSE, !.falling = FALSE, !.grounded = TRUE,
                 !.g_killed = TRUE, !.g_starts = @ + 1]
  ELSE t

\* Trigger death state if health depleted
DamageDeath(t) ==
  IF t.health <= 0 /\ t.deathTimer = 0
  THEN [t EXCEPT !.deathTimer = DEATH_TIME, !.state = "DEAD", !.g_vel.y = 0,
                 !.stunTimer = 0, !.rising = FALSE, !.falling = FALSE,
                 !.grounded = TRUE,
                 !.g_killed = TRUE, !.g_starts = @ + 1]
  ELSE t

\* PlaySound (gameSounds.deathSound), under the same test once more
DamageDeathCue(t) ==
  IF t.health <= 0 /\ t.deathTimer = 0
  THEN [t EXCEPT !.g_cues = @ + 1]
  ELSE t

DamageEntity(target, dmg, isPlayerAttacker) ==
  IF dmg <= 0 THEN target
  ELSE DamageRecord(
         DamageDeathCue(DamageDeath(DamageStun(
           DamageApply(target, dmg, isPlayerAttacker), isPlayerAttacker))),
         isPlayerAttacker)

(***************************************************************************)
(* Physics.  Of UpdatePhysics only the outcome for `grounded` and for the  *)
(* sign of velocity.y is kept.  The call clears `grounded`, applies        *)
(* gravity, moves the entity and sets `grounded` again when the move ends  *)
(* on a solid tile or collider.  phys is the geometry's part in that:      *)
(*   supported : a standing entity still has ground under it               *)
(*   apex      : a rising entity stops rising in this step                 *)
(*   lands     : a falling entity reaches the ground in this step          *)
(***************************************************************************)
UpdatePhysics(e, phys) ==
  Phase(IF e.rising
        THEN [e EXCEPT !.grounded = FALSE, !.rising = ~ phys.apex,
                       !.falling = phys.apex, !.hitboxAtPos = TRUE]
        ELSE IF e.grounded
        THEN [e EXCEPT !.grounded = phys.supported,
                       !.falling = ~ phys.supported, !.hitboxAtPos = TRUE]
        ELSE [e EXCEPT !.grounded = phys.lands, !.falling = ~ phys.lands,
                       !.hitboxAtPos = TRUE],
        "physics")

(***************************************************************************)
(* UpdatePhysics in coordinates.  Lengths are in units of 1/900 pixel and  *)
(* velocities in units per fixed step (velocity * dt with dt = 1/60 s), so *)
(* that the products with dt are whole numbers: 200 px/s is 3000 units a   *)
(* step, and gravity adds 245 units a step to velocity.y.  A body is a     *)
(* record with the position x, y, the velocity vx, vy, maxHealth,          *)
(* grounded, hitbox and the stage index.  The tile map of GenerateTileMap  *)
(* is solid in every column of the rows from GROUND_Y / TILE_SIZE down     *)
(* (src/level.c:293-336).                                                  *)
(***************************************************************************)
TILE_SIZE == 14400
TILES_PER_ROW == 125
WORLD_ROWS == 38
GROUND_Y == 403200
PLAYER_WIDTH == 42300
PLAYER_HEIGHT == 42300
GRAVITY == 245

\* raylib's CheckCollisionRecs: the rectangles overlap in more than an edge.
CheckCollisionRecs(rec1, rec2) ==
  /\ rec1.x < rec2.x + rec2.width /\ rec1.x + rec1.width > rec2.x
  /\ rec1.y < rec2.y + rec2.height /\ rec1.y + rec1.height > rec2.y

\* (int)(v / TILE_SIZE): the conversion truncates toward zero.
TileIndex(v) == IF v >= 0 THEN v \div TILE_SIZE ELSE - ((- v) \div TILE_SIZE)

\* The first solid tile of the scan (rows min_ty .. max_ty - 1, in each row
\* the columns min_tx .. max_tx - 1) that temp_hitbox collides with.
FirstTile(temp_hitbox, min_tx, max_tx, min_ty, max_ty) ==
  LET hits == {t \in (min_ty..(max_ty - 1)) \X (min_tx..(max_tx - 1)) :
                 /\ t[1] >= GROUND_Y \div TILE_SIZE
                 /\ CheckCollisionRecs(temp_hitbox,
                      [x |-> t[2] * TILE_SIZE, y |-> t[1] * TILE_SIZE,
                       width |-> TILE_SIZE, height |-> TILE_SIZE])}
  IN IF hits = {} THEN [hit |-> FALSE, tx |-> 0, ty |-> 0]
     ELSE [hit |-> TRUE, ty |-> MinOf({t[1] : t \in hits}),
           tx |-> MinOf({t[2] : t \in {u \in hits :
                                         u[1] = MinOf({v[1] : v \in hits})}})]

\* The first collider of the stage (SetupColliders) that temp_hitbox
\* collides with.
FirstCollider(temp_hitbox, stageIndex) ==
  LET colliders ==
        <<[x |-> 378000, y |-> GROUND_Y - 43200, width |-> 43200, height |-> 43200,
           hit |-> TRUE],
          [x |-> 828000, y |-> GROUND_Y - 32400, width |-> 72000, height |-> 32400,
           hit |-> TRUE],
          [x |-> 1215000, y |-> GROUND_Y - 46800, width |-> 54000, height |-> 46800,
           hit |-> TRUE],
          [x |-> 1485000, y |-> GROUND_Y - 36000, width |-> 64800, height |-> 36000,
           hit |-> TRUE]>>
      hits == {i \in 1..(IF stageIndex = 0 THEN 2 ELSE IF stageIndex = 1 THEN 3 ELSE 4) :
                 CheckCollisionRecs(temp_hitbox, colliders[i])}
  IN IF hits = {} THEN [hit |-> FALSE, x |-> 0, y |-> 0, width |-> 0, height |-> 0]
     ELSE colliders[MinOf(hits)]

\* Horizontal movement and collision.
HorizontalPass(e, w, h) ==
  LET temp_hitbox == [x |-> e.x + e.vx, y |-> e.y, width |-> w, height |-> h]
      t == FirstTile(temp_hitbox,
             SafeClamp(TileIndex(Min(e.x, e.x + e.vx)), 0, TILES_PER_ROW - 1),
             SafeClamp(TileIndex(Max(e.x + w, e.x + e.vx + w)) + 1, 0,
                       TILES_PER_ROW),
             SafeClamp(TileIndex(e.y), 0, WORLD_ROWS - 1),
             SafeClamp(TileIndex(e.y + h) + 1, 0, WORLD_ROWS))
      c == FirstCollider(temp_hitbox, e.stage)
  IN [e EXCEPT
        !.x = IF c.hit /\ e.vx > 0 THEN c.x - w
              ELSE IF c.hit /\ e.vx < 0 THEN c.x + c.width
              ELSE IF t.hit /\ e.vx > 0 THEN t.tx * TILE_SIZE - w
              ELSE IF t.hit /\ e.vx < 0 THEN (t.tx + 1) * TILE_SIZE
              ELSE e.x + e.vx,
        !.vx = IF t.hit \/ c.hit THEN 0 ELSE @]

\* Vertical movement and collision; e.vy is the velocity after gravity.
VerticalPass(e, w, h) ==
  LET temp_hitbox == [x |-> e.x, y |-> e.y + e.vy, width |-> w, height |-> h]
      t == FirstTile(temp_hitbox,
             SafeClamp(TileIndex(e.x), 0, TILES_PER_ROW - 1),
             SafeClamp(TileIndex(e.x + w) + 1, 0, TILES_PER_ROW),
             SafeClamp(TileIndex(Min(e.y, e.y + e.vy)), 0, WORLD_ROWS - 1),
             SafeClamp(TileIndex(Max(e.y + h, e.y + e.vy + h)) + 1, 0,
                       WORLD_ROWS))
      c == FirstCollider(temp_hitbox, e.stage)
  IN [e EXCEPT
        !.y = IF c.hit /\ e.vy >= 0 THEN c.y - h
              ELSE IF c.hit THEN c.y + c.height
              ELSE IF t.hit /\ e.vy >= 0 THEN t.ty * TILE_SIZE - h
              ELSE IF t.hit THEN (t.ty + 1) * TILE_SIZE
              ELSE e.y + e.vy,
        !.grounded = (t.hit \/ c.hit) /\ e.vy >= 0,
        !.vy = IF t.hit \/ c.hit THEN 0 ELSE @]

\* (mutant) the right bound is computed with the unscaled width
PhysicsBoundsUnscaled(e, w, h) ==
  [e EXCEPT
     !.x = SafeClamp(@, 0, Max(TILES_PER_ROW * TILE_SIZE - PLAYER_WIDTH, 0)),
     !.y = SafeClamp(@, 0, GROUND_Y),
     !.hitbox =
        [x |-> SafeClamp(e.x, 0, Max(TILES_PER_ROW * TILE_SIZE - PLAYER_WIDTH, 0))
                 + (w - PLAYER_WIDTH) \div 2,
         y |-> SafeClamp(e.y, 0, GROUND_Y) + (h - PLAYER_HEIGHT) \div 2,
         width |-> w, height |-> h]]

\* The bounds clamp and the hitbox.
PhysicsBounds(e, w, h) ==
  [e EXCEPT
     !.x = SafeClamp(@, 0, Max(TILES_PER_ROW * TILE_SIZE - w, 0)),
     !.y = SafeClamp(@, 0, GROUND_Y),
     !.hitbox =
        [x |-> SafeClamp(e.x, 0, Max(TILES_PER_ROW * TILE_SIZE - w, 0))
                 + (w - PLAYER_WIDTH) \div 2,
         y |-> SafeClamp(e.y, 0, GROUND_Y) + (h - PLAYER_HEIGHT) \div 2,
         width |-> w, height |-> h]]

\* UpdatePhysics (e, dt) with dt = 1/60 s; the size is scaled by 1.5 for
\* every entity with maxHealth > ENEMY_MAX_HEALTH.
UpdatePhysicsAt(e) ==
  LET w == IF e.maxHealth > ENEMY_MAX_HEALTH THEN (3 * PLAYER_WIDTH) \div 2
           ELSE PLAYER_WIDTH
      h == IF e.maxHealth > ENEMY_MAX_HEALTH THEN (3 * PLAYER_HEIGHT) \div 2
           ELSE PLAYER_HEIGHT
  IN PhysicsBounds(
       VerticalPass(
         [HorizontalPass([e EXCEPT !.grounded = FALSE], w, h)
            EXCEPT !.vy = @ + GRAVITY],
         w, h),
       w, h)

(***************************************************************************)
(* Player                                                                  *)
(*                                                                         *)
(* An input `in` of a player update is a record:                           *)
(*   move, jump, grabPressed, grabReleased : BOOLEAN   keys of this frame  *)
(*   atk : "none", "J", "L", "K" (for player 2: Z, X, C)                   *)
(*   reach   : the slots of the enemies closer than the grab radius,       *)
(*             nearest first                                               *)
(*   overlap : the slots whose hitbox intersects the attack hitbox         *)
(*   phys    : the geometry's part in UpdatePhysics                        *)
(* Slots are the C indices 0 .. activeEnemies-1; slot k is es[k + 1].      *)
(***************************************************************************)
\* (mutant) the death timer saturates at zero
UpdatePlayerDeathSaturating(p) ==
  IF p.deathTimer > 0
  THEN [p EXCEPT !.deathTimer = CountDown(@), !.rising = FALSE, !.falling = FALSE,
                 !.currentAnimIndex = ANIM_HURT, !.state = "DEAD",
                 !.grounded = TRUE,
                 !.health = IF CountDown(p.deathTimer) <= 0 THEN 0 ELSE @]
  ELSE p

UpdatePlayerDeath(p) ==
  IF p.deathTimer > 0
  THEN LET t == StepTimer(p.deathTimer)
       IN [p EXCEPT !.deathTimer = t, !.rising = FALSE, !.falling = FALSE,
                    !.currentAnimIndex = ANIM_HURT, !.state = "DEAD",
                    !.grounded = TRUE,
                    !.health = IF t <= 0 THEN 0 ELSE @]
  ELSE p

StartPlayerAttack(p, profile) ==
  [p EXCEPT !.isAttacking = TRUE, !.state = "ATTACK", !.attackTimer = 0,
            !.attackHasHit = FALSE, !.attackDamage = profile.damage,
            !.attackCooldown = profile.cooldown,
            !.hitFrameStart = profile.hitFrameStart,
            !.hitFrameEnd = profile.hitFrameEnd,
            !.currentAnimIndex = profile.animIndex, !.lastAnimIndex = -1,
            !.idleTimer = 0,
            !.g_swing = TRUE, !.g_hits = 0, !.g_always = TRUE,
            !.g_ended = FALSE, !.g_startTick = TRUE, !.g_startHit = FALSE,
            !.g_age = 0,
            !.g_rec.early = @ \/ (p.g_rec.on /\ p.g_rec.left > 0),
            !.g_rec.on = FALSE]

StartAirAttack(p, animIndex, damage, cooldown) ==
  [p EXCEPT !.isAttacking = TRUE, !.state = "ATTACK", !.attackTimer = 0,
            !.attackHasHit = FALSE, !.attackDamage = damage,
            !.attackCooldown = cooldown,
            !.hitFrameStart = 1, !.hitFrameEnd = 2,
            !.currentAnimIndex = animIndex, !.lastAnimIndex = -1,
            !.idleTimer = 0,
            !.g_swing = TRUE, !.g_hits = 0, !.g_always = TRUE,
            !.g_ended = FALSE, !.g_startTick = TRUE, !.g_startHit = FALSE,
            !.g_age = 0,
            !.g_rec.early = @ \/ (p.g_rec.on /\ p.g_rec.left > 0),
            !.g_rec.on = FALSE]

\* The profile and the ground damage the attack key selects.
ProfileOfKey(key) ==
  IF key = "J" THEN PLAYER_ATTACK_JAB_PROFILE
  ELSE IF key = "L" THEN PLAYER_ATTACK_PUNCH_PROFILE
  ELSE PLAYER_ATTACK_KICK_PROFILE

\* `canControl` of ProcessPlayerInput.
CanControl(p) ==
  p.stunTimer <= 0 /\ p.state # "ATTACK" /\ p.state # "HURT" /\ p.state # "DEAD"

\* The clamped hit window of an attacker, and whether its frame is inside.
HitStart(e) ==
  SafeClamp(IF e.hitFrameStart > 0 THEN e.hitFrameStart ELSE HIT_FRAMES_START,
            0, e.anim.totalFrames - 1)
HitEnd(e) ==
  SafeClamp(IF e.hitFrameEnd > 0 THEN e.hitFrameEnd ELSE HIT_FRAMES_END,
            HitStart(e), e.anim.totalFrames - 1)
InHitWindow(e) ==
  ~ (e.anim.currentFrame < HitStart(e) \/ e.anim.currentFrame > HitEnd(e))

\* The slots of `overlap` that are in the registry and alive.
LivingIn(overlap, es) ==
  {k \in overlap : k >= 0 /\ k < Len(es) /\ es[k + 1].health > 0}

\* The grab search: the nearest living enemy within the radius, or -1.
ClosestEnemy(reach, es) ==
  LET cand == {i \in 1..Len(reach) :
                 reach[i] < Len(es) /\ es[reach[i] + 1].health > 0}
  IN IF cand = {} THEN -1 ELSE reach[MinOf(cand)]

\* Jump input.  (g_acted starts the update's record of keys that took effect.)
PlayerJumpInput(p, in, canControl) ==
  IF canControl /\ in.jump /\ p.grounded
  THEN [p EXCEPT !.rising = TRUE, !.falling = FALSE, !.state = "JUMP",
                 !.currentAnimIndex = ANIM_JUMP, !.lastAnimIndex = -1,
                 !.grounded = FALSE, !.g_acted = TRUE]
  ELSE [p EXCEPT !.g_acted = FALSE]

\* Horizontal movement.
PlayerMoveInput(p, in, canControl) ==
  IF ~ canControl THEN p
  ELSE IF in.move
       THEN IF p.state # "JUMP"
            THEN [p EXCEPT !.state = "MOVE", !.currentAnimIndex = ANIM_WALK,
                           !.g_acted = TRUE]
            ELSE [p EXCEPT !.g_acted = TRUE]
       ELSE IF p.state = "MOVE" /\ p.grounded
            THEN [p EXCEPT !.state = "IDLE"]
            ELSE p

\* Attack inputs.
PlayerAttackInput(p, in, canControl) ==
  IF canControl /\ p.attackCooldown <= 0 /\ in.atk # "none"
  THEN [(IF ~ p.grounded
         THEN StartAirAttack(p,
                IF p.rising THEN ANIM_JUMP_KICK ELSE ANIM_DIVE_KICK,
                ProfileOfKey(in.atk).damage + AIR_DAMAGE_BONUS, AIR_COOLDOWN)
         ELSE StartPlayerAttack(p, ProfileOfKey(in.atk)))
        EXCEPT !.g_acted = TRUE]
  ELSE p

\* Grab input; s holds the player and the registry.
PlayerGrabInput(s, in, canControl) ==
  LET closest == ClosestEnemy(in.reach, s.es)
  IN IF canControl /\ in.grabPressed /\ s.p.grabbedEnemyIndex = -1
        /\ s.p.grounded /\ closest # -1
     THEN [p |-> [s.p EXCEPT !.grabbedEnemyIndex = closest, !.state = "GRAB",
                             !.currentAnimIndex = ANIM_PUNCH, !.lastAnimIndex = -1,
                             !.g_heldId = s.es[closest + 1].id, !.g_acted = TRUE,
                             !.g_late = s.p.g_startTick],
           es |-> [s.es EXCEPT ![closest + 1] =
                     [@ EXCEPT !.state = "HURT", !.stunTimer = GRAB_STUN,
                               !.rising = FALSE, !.falling = FALSE,
                               !.g_grabHp = s.es[closest + 1].health]]]
     ELSE s

\* Release input: the held enemy is thrown when it is still valid.
PlayerReleaseInput(s, in, canControl) ==
  LET idx == s.p.grabbedEnemyIndex
  IN IF canControl /\ in.grabReleased /\ idx # -1
     THEN [p |-> [s.p EXCEPT !.grabbedEnemyIndex = -1, !.state = "IDLE",
                             !.g_stuck = FALSE,
                             !.g_heldId = 0, !.g_acted = TRUE,
                             !.g_late = @ \/ s.p.g_startTick],
           es |-> IF idx < Len(s.es) /\ s.es[idx + 1].health > 0
                  THEN [s.es EXCEPT ![idx + 1] =
                          LET e == DamageEntity(
                                     [@ EXCEPT !.state = "MOVE",
                                               !.stunTimer = THROW_STUN,
                                               !.rising = TRUE, !.falling = FALSE,
                                               !.g_vel = [x |-> THROW_VELOCITY_X,
                                                          y |-> THROW_VELOCITY_Y]],
                                     THROW_DAMAGE, TRUE)
                          IN [e EXCEPT !.g_throw =
                                [on |-> TRUE, x |-> e.g_vel.x, y |-> e.g_vel.y,
                                 from |-> s.es[idx + 1].health, to |-> e.health,
                                 ref |-> -1, state |-> "IDLE"]]]
                  ELSE s.es]
     ELSE [s EXCEPT !.p.g_stuck = in.grabReleased /\ idx # -1]

\* Idle timer.
PlayerIdleTimer(p, moving) ==
  IF ~ p.isAttacking /\ p.grounded /\ ~ moving /\ p.stunTimer <= 0
     /\ p.state # "JUMP" /\ p.state # "ATTACK" /\ p.state # "DEAD"
  THEN IF p.idleTimer + 1 >= IDLE_DELAY
       THEN [p EXCEPT !.currentAnimIndex = ANIM_IDLE, !.state = "IDLE",
                      !.idleTimer = 0, !.lastAnimIndex = -1]
       ELSE [p EXCEPT !.idleTimer = @ + 1]
  ELSE IF moving THEN [p EXCEPT !.idleTimer = 0] ELSE p

\* (history) what the attack met and whether a dead player's key took effect.
PlayerTrack(p, living) ==
  [p EXCEPT !.g_always = IF p.g_swing THEN @ /\ living # {} ELSE @,
            !.g_deadInput = @ \/ (p.health <= 0 /\ p.g_acted)]

\* (history) the hit detection runs for an attacker that has not hit yet.
PlayerHitPhase(p) ==
  IF p.isAttacking /\ ~ p.attackHasHit /\ p.attackDamage > 0
     /\ p.anim.totalFrames > 0
  THEN Phase(p, "hit") ELSE p

\* Attack hit detection: the first living enemy that intersects is damaged.
PlayerHitDetection(p, es, living) ==
  IF p.isAttacking /\ ~ p.attackHasHit /\ p.attackDamage > 0
     /\ p.anim.totalFrames > 0 /\ InHitWindow(p) /\ living # {}
  THEN [p |-> [p EXCEPT !.attackHasHit = TRUE, !.g_hits = @ + 1,
                        !.g_rec.stray = IF p.g_rec.on THEN @ + 1 ELSE @,
                        !.g_startHit = p.g_startTick],
        es |-> [es EXCEPT ![MinOf(living) + 1] =
                  DamageEntity(@, p.attackDamage, TRUE)]]
  ELSE [p |-> p, es |-> es]

\* The part of ProcessPlayerInput after the release input.
PlayerInputTail(s, in, moving) ==
  PlayerHitDetection(
    PlayerHitPhase(PlayerTrack(PlayerIdleTimer(s.p, moving),
                               LivingIn(in.overlap, s.es))),
    s.es, LivingIn(in.overlap, s.es))

\* The part of ProcessPlayerInput that reads the keys, with `canControl`
\* as computed on entry.
PlayerInputKeys(p, es, in, canControl) ==
  PlayerReleaseInput(
    PlayerGrabInput(
      [p |-> PlayerAttackInput(
               PlayerMoveInput(PlayerJumpInput(p, in, canControl), in, canControl),
               in, canControl),
       es |-> es],
      in, canControl),
    in, canControl)

\* ProcessPlayerInput: the player and the registry afterwards.
ProcessPlayerInput(p, es, in) ==
  PlayerInputTail(PlayerInputKeys([Phase(p, "input")
                                     EXCEPT !.g_locked = ~ CanControl(p),
                                            !.g_late = FALSE],
                                  es, in, CanControl(p)),
                  in, CanControl(p) /\ in.move)

UpdatePlayerAnimationFrames(p) ==
  [p EXCEPT !.anim.totalFrames =
     CASE p.currentAnimIndex = ANIM_IDLE -> PLAYER_IDLE_FRAMES
       [] p.currentAnimIndex = ANIM_WALK -> PLAYER_WALK_FRAMES
       [] p.currentAnimIndex = ANIM_JUMP -> PLAYER_JUMP_FRAMES
       [] p.currentAnimIndex = ANIM_JAB -> PLAYER_JAB_FRAMES
       [] p.currentAnimIndex = ANIM_PUNCH -> 3
       [] p.currentAnimIndex = ANIM_KICK -> PLAYER_KICK_FRAMES
       [] p.currentAnimIndex = ANIM_JUMP_KICK -> PLAYER_JUMP_KICK_FRAMES
       [] p.currentAnimIndex = ANIM_DIVE_KICK -> PLAYER_DIVE_KICK_FRAMES
       [] p.currentAnimIndex = ANIM_HURT -> PLAYER_HURT_FRAMES
       [] OTHER -> PLAYER_IDLE_FRAMES]

\* The animation-change test of UpdatePlayer: switch clip, restart it.
PlayerAnimChange(p) ==
  IF p.currentAnimIndex # p.lastAnimIndex
  THEN LET q == UpdatePlayerAnimationFrames([p EXCEPT !.lastAnimIndex = p.currentAnimIndex])
       IN [q EXCEPT !.anim.currentFrame = 0, !.anim.timer = 0,
                    !.g_clip = p.currentAnimIndex]
  ELSE p

\* The attack-completion block of UpdatePlayer.
PlayerAttackCompletion(p) ==
  IF p.isAttacking /\ p.currentAnimIndex >= ANIM_JAB
     /\ p.currentAnimIndex <= ANIM_DIVE_KICK
  THEN LET t == p.attackTimer + 1
           animationFinished == p.anim.currentFrame >= p.anim.totalFrames - 1
           timeoutExpired == t >= ATTACK_TIMEOUT
       IN IF animationFinished \/ timeoutExpired
          THEN [p EXCEPT !.currentAnimIndex = ANIM_IDLE, !.isAttacking = FALSE,
                         !.idleTimer = 0, !.attackTimer = 0, !.attackDamage = 0,
                         !.attackHasHit = FALSE,
                         !.state = IF p.grounded THEN "IDLE" ELSE "JUMP",
                         !.lastAnimIndex = -1]
          ELSE [p EXCEPT !.attackTimer = t]
  ELSE [p EXCEPT !.attackTimer = 0,
                 !.attackDamage = IF ~ p.isAttacking THEN 0 ELSE @]

\* The grabbed-enemy block at the end of UpdatePlayer.
UpdateGrabbedEnemy(p, es) ==
  IF p.grabbedEnemyIndex # -1
  THEN LET idx == p.grabbedEnemyIndex
       IN IF idx >= 0 /\ idx < Len(es) /\ es[idx + 1].health > 0
          THEN [p |-> p,
                es |-> [es EXCEPT ![idx + 1] =
                          [@ EXCEPT !.rising = FALSE, !.falling = FALSE,
                                    !.grounded = p.grounded,
                                    !.hitboxAtPos = FALSE, !.vx = 0,
                                    !.aiState = "IDLE", !.isAttacking = FALSE]]]
          ELSE [p |-> [p EXCEPT !.grabbedEnemyIndex = -1, !.state = "IDLE",
                                !.g_heldId = 0],
                es |-> es]
  ELSE [p |-> p, es |-> es]

\* Stun countdown at the head of UpdatePlayer.
PlayerStun(p) ==
  IF p.stunTimer > 0
  THEN IF StepTimer(p.stunTimer) <= 0 /\ p.health > 0 /\ p.state = "HURT"
       THEN [p EXCEPT !.stunTimer = StepTimer(@),
               !.state = IF p.grounded THEN "IDLE" ELSE "JUMP",
               !.currentAnimIndex = IF p.grounded THEN ANIM_IDLE ELSE ANIM_JUMP,
               !.lastAnimIndex = -1]
       ELSE [p EXCEPT !.stunTimer = StepTimer(@)]
  ELSE p

\* Landing after UpdatePhysics: q is the player after it.
PlayerLanding(wasGrounded, q) ==
  IF ~ wasGrounded /\ q.grounded /\ q.state # "DEAD"
     /\ ~ q.isAttacking /\ q.stunTimer <= 0
  THEN [q EXCEPT !.state = "IDLE", !.currentAnimIndex = ANIM_IDLE,
                 !.lastAnimIndex = -1]
  ELSE q

\* Physics and landing of a player that is not dying.
PlayerPhysics(s, phys) ==
  [p |-> PlayerLanding(s.p.grounded, UpdatePhysics(s.p, phys)), es |-> s.es]

\* `isDying` branch of UpdatePlayer: death sequence, or input and physics.
PlayerAct(p, es, in) ==
  IF p.deathTimer > 0
  THEN [p |-> UpdatePlayerDeath(p), es |-> es]
  ELSE PlayerPhysics(ProcessPlayerInput(p, es, in), in.phys)

PlayerCooldown(p) ==
  [p EXCEPT !.attackCooldown = CountDown(@), !.g_rec.left = CountDown(@)]

PlayerAnimate(p) == Phase([p EXCEPT !.anim = UpdateAnimation(@)], "animation")

\* Trigger death if health depleted
PlayerDeathTrigger(p) ==
  IF p.health <= 0 /\ p.deathTimer = 0
  THEN [p EXCEPT !.deathTimer = DEATH_TIME, !.g_starts = @ + 1]
  ELSE p

\* (history) the end of the update: an attack that is over has ended.
PlayerEndOfUpdate(s) ==
  [p |-> [s.p EXCEPT !.g_startTick = FALSE,
                     !.g_age = IF s.p.isAttacking
                               THEN Min(@ + 1, ATTACK_TIMEOUT + 1) ELSE @,
                     !.g_swing = @ /\ s.p.isAttacking,
                     !.g_ended = @ \/ (s.p.g_swing /\ ~ s.p.isAttacking)],
   es |-> s.es]

\* UpdatePlayer after the input/physics branch.
PlayerFinish(s) ==
  PlayerEndOfUpdate(
    UpdateGrabbedEnemy(
      PlayerDeathTrigger(PlayerAttackCompletion(PlayerAnimate(
        PlayerAnimChange(PlayerCooldown(s.p))))),
      s.es))

\* UpdatePlayer: the player and the registry afterwards.
UpdatePlayer(p, es, in) == PlayerFinish(PlayerAct(PlayerStun(p), es, in))

(***************************************************************************)
(* Enemies                                                                 *)
(*                                                                         *)
(* An input `in` of one enemy's update is a record:                        *)
(*   near    : the players closer than the targeting radius                *)
(*             (ENEMY_SIGHT_DIST + 1), nearest first, as C indices 0, 1    *)
(*   band    : where the distance d to the target lies, with r the         *)
(*             enemy's attack range (boss: 1.5 times larger):              *)
(*               1: d < r-10      2: r-10 <= d <= r    3: r < d <= r+10    *)
(*               4: r+10 < d <= 1.2r   5: 1.2r < d <= 1.5r                 *)
(*               6: 1.5r < d <= ENEMY_SIGHT_DIST   7: beyond that          *)
(*   kick, evade : the outcomes of the two rand () draws                   *)
(*   overlap : the players whose hitbox intersects the attack hitbox       *)
(*   phys    : the geometry's part in UpdatePhysics                        *)
(***************************************************************************)
UpdateEnemyAnimationFrames(e) ==
  [e EXCEPT !.anim.totalFrames =
     CASE e.currentAnimIndex = ANIM_IDLE -> ENEMY_IDLE_FRAMES
       [] e.currentAnimIndex = ANIM_WALK -> ENEMY_WALK_FRAMES
       [] e.currentAnimIndex = ANIM_JUMP -> ENEMY_WALK_FRAMES
       [] e.currentAnimIndex = ANIM_PUNCH -> ENEMY_PUNCH_FRAMES
       [] e.currentAnimIndex = ANIM_HURT -> ENEMY_HURT_FRAMES
       [] e.currentAnimIndex = ANIM_KICK -> ENEMY_PUNCH_FRAMES
       [] OTHER -> ENEMY_IDLE_FRAMES]

StartEnemyAttack(e, profile) ==
  [e EXCEPT !.aiState = "ATTACK", !.state = "ATTACK",
            !.currentAnimIndex = profile.animIndex, !.isAttacking = TRUE,
            !.attackCooldown = profile.cooldown, !.attackTimer = 0,
            !.attackHasHit = FALSE, !.attackDamage = profile.damage,
            !.hitFrameStart = profile.hitFrameStart,
            !.hitFrameEnd = profile.hitFrameEnd, !.lastAnimIndex = -1,
            !.g_swing = TRUE, !.g_hits = 0, !.g_always = TRUE,
            !.g_ended = FALSE, !.g_startTick = TRUE, !.g_startHit = FALSE,
            !.g_rec.early = @ \/ (e.g_rec.on /\ e.g_rec.left > 0),
            !.g_rec.on = FALSE]

\* (mutant) the nearest player within the radius, living or not
TargetPlayerAny(near, ps, numPlayers) ==
  LET cand == {i \in 1..Len(near) : near[i] < numPlayers}
  IN IF cand = {} THEN -1 ELSE near[MinOf(cand)]

\* The target selection of ProcessEnemyAI: the nearest living player within
\* the radius, as a C index, or -1.
TargetPlayer(near, ps, numPlayers) ==
  LET cand == {i \in 1..Len(near) :
                 near[i] < numPlayers /\ ps[near[i] + 1].health > 0}
  IN IF cand = {} THEN -1 ELSE near[MinOf(cand)]

\* rand () / RAND_MAX < 0.3f
ChosenProfile(kick) ==
  IF kick THEN ENEMY_ATTACK_KICK_PROFILE ELSE ENEMY_ATTACK_PUNCH_PROFILE

\* The `switch (e->aiState)` of ProcessEnemyAI; tp is the target player.
EnemyAISwitch(e, tp, isBoss, in) ==
  LET inSight == in.band <= 6 \/ isBoss
      canAttack == e.attackCooldown <= 0 /\ ~ tp.isAttacking
  IN CASE e.aiState = "IDLE" ->
            IF inSight
            THEN [e EXCEPT !.aiState = "CHASE", !.currentAnimIndex = ANIM_WALK,
                           !.state = "MOVE"]
            ELSE [e EXCEPT !.currentAnimIndex = ANIM_IDLE, !.state = "IDLE"]
       [] e.aiState = "CHASE" ->
            IF ~ inSight
            THEN [e EXCEPT !.aiState = "IDLE", !.currentAnimIndex = ANIM_IDLE,
                           !.state = "IDLE"]
            ELSE IF in.band <= 2
            THEN IF canAttack
                 THEN StartEnemyAttack([e EXCEPT !.currentAnimIndex = ANIM_WALK,
                                                 !.state = "MOVE"],
                                       ChosenProfile(in.kick))
                 ELSE [e EXCEPT !.currentAnimIndex = ANIM_WALK,
                                !.aiState = "POSITION", !.state = "MOVE"]
            ELSE IF tp.isAttacking /\ in.band <= 5 /\ in.evade
            THEN [e EXCEPT !.currentAnimIndex = ANIM_WALK, !.state = "MOVE",
                           !.vx = 1,
                           !.aiState = "EVADE", !.aiTimer = EVADE_TIME_CHASE]
            ELSE [e EXCEPT !.currentAnimIndex = ANIM_WALK, !.state = "MOVE",
                           !.vx = 1]
       [] e.aiState = "POSITION" ->
            LET w == [e EXCEPT !.currentAnimIndex = ANIM_WALK, !.state = "MOVE",
                               !.vx = IF in.band = 1 THEN -1
                                      ELSE IF in.band >= 4 THEN 1 ELSE 0]
            IN IF in.band \in {2, 3} /\ canAttack
               THEN StartEnemyAttack(w, ChosenProfile(in.kick))
               ELSE IF tp.isAttacking /\ in.band <= 4 /\ w.aiTimer <= 0
               THEN [w EXCEPT !.aiState = "EVADE", !.aiTimer = EVADE_TIME_POSITION]
               ELSE w
       [] e.aiState = "ATTACK" -> [e EXCEPT !.isAttacking = TRUE]
       [] e.aiState = "RETREAT" ->
            IF e.aiTimer <= 0
            THEN [e EXCEPT !.wasHurt = FALSE, !.aiState = "CHASE",
                           !.currentAnimIndex = ANIM_WALK, !.state = "MOVE",
                           !.vx = -1]
            ELSE [e EXCEPT !.currentAnimIndex = ANIM_HURT, !.state = "HURT",
                           !.vx = -1]
       [] e.aiState = "EVADE" ->
            IF e.aiTimer <= 0
            THEN [e EXCEPT !.aiState = "CHASE", !.currentAnimIndex = ANIM_WALK,
                           !.state = "MOVE", !.vx = -1]
            ELSE [e EXCEPT !.currentAnimIndex = ANIM_WALK, !.state = "MOVE",
                           !.vx = -1]
       [] OTHER -> e

\* If we were recently hurt, make sure we honour the retreat
EnemyHonourRetreat(e) ==
  IF e.wasHurt /\ e.aiState # "RETREAT"
  THEN [e EXCEPT !.aiState = "RETREAT",
                 !.aiTimer = IF e.aiTimer <= 0 THEN ENEMY_RETREAT_TIME ELSE @,
                 !.currentAnimIndex = ANIM_HURT]
  ELSE e

\* The attack flag is dropped outside the attack state.
EnemyDropAttack(e) ==
  IF e.aiState # "ATTACK" THEN [e EXCEPT !.isAttacking = FALSE] ELSE e

\* ProcessEnemyAI once a target is found.
EnemyAIWithTarget(e, tp, in) ==
  EnemyAISwitch(
    [EnemyDropAttack(EnemyHonourRetreat([e EXCEPT !.aiTimer = CountDown(@)]))
       EXCEPT !.vx = 0, !.g_ai.target = TRUE, !.g_ai.hp = tp.health,
              !.g_ai.isBoss = e.health > ENEMY_MAX_HEALTH],
    tp, e.health > ENEMY_MAX_HEALTH, in)

ProcessEnemyAI(e, ps, numPlayers, in) ==
  IF numPlayers <= 0 \/ TargetPlayer(in.near, ps, numPlayers) = -1
  THEN [e EXCEPT !.aiState = "IDLE", !.currentAnimIndex = ANIM_IDLE,
                 !.state = "IDLE", !.vx = IF numPlayers <= 0 THEN @ ELSE 0]
  ELSE EnemyAIWithTarget(e, ps[TargetPlayer(in.near, ps, numPlayers) + 1], in)

\* The players of `overlap` that take part and are alive.
LivingPlayersIn(overlap, ps, numPlayers) ==
  {j \in overlap : j >= 0 /\ j < numPlayers /\ ps[j + 1].health > 0}

\* (history) what the attack met.
EnemyTrack(e, living) ==
  [e EXCEPT !.g_always = IF e.g_swing THEN @ /\ living # {} ELSE @]

\* The frame-count fallback of ProcessEnemyAttack.
EnemyAttackFrames(e) ==
  IF e.anim.totalFrames <= 0
  THEN [e EXCEPT !.anim.totalFrames =
          IF ENEMY_PUNCH_FRAMES > 0 THEN ENEMY_PUNCH_FRAMES ELSE 1]
  ELSE e

\* The hit test: the first living player that intersects is damaged.
EnemyHitDetection(e, ps, living) ==
  IF InHitWindow(e) /\ living # {}
  THEN [e |-> [e EXCEPT !.attackHasHit = TRUE, !.g_hits = @ + 1,
                        !.g_rec.stray = IF e.g_rec.on THEN @ + 1 ELSE @,
                        !.g_startHit = e.g_startTick],
        ps |-> [ps EXCEPT ![MinOf(living) + 1] =
                  DamageEntity(@, e.attackDamage, FALSE)]]
  ELSE [e |-> e, ps |-> ps]

\* ProcessEnemyAttack for the players `living` that intersect.
EnemyAttackOn(e, ps, numPlayers, living) ==
  IF numPlayers <= 0 \/ ~ e.isAttacking \/ e.attackHasHit \/ e.attackDamage <= 0
  THEN [e |-> e, ps |-> ps]
  ELSE EnemyHitDetection(EnemyAttackFrames(Phase(e, "hit")), ps, living)

\* ProcessEnemyAttack: the enemy and the players afterwards.
ProcessEnemyAttack(e, ps, numPlayers, in) ==
  EnemyAttackOn(EnemyTrack(e, LivingPlayersIn(in.overlap, ps, numPlayers)),
                ps, numPlayers, LivingPlayersIn(in.overlap, ps, numPlayers))

\* Whether some player holds slot i.
IsGrabbed(i, ps, numPlayers) ==
  \E j \in 0..(numPlayers - 1) : ps[j + 1].grabbedEnemyIndex = i

\* The end of an attack: back to the chase.
EnemyAttackEnd(e) ==
  [e EXCEPT !.isAttacking = FALSE, !.attackTimer = 0,
            !.attackDamage = 0, !.attackHasHit = FALSE,
            !.aiState = IF @ = "ATTACK" THEN "CHASE" ELSE @,
            !.currentAnimIndex = IF e.aiState = "ATTACK" THEN ANIM_WALK ELSE @,
            !.state = IF e.aiState = "ATTACK" THEN "MOVE" ELSE @,
            !.g_swing = FALSE, !.g_ended = e.g_swing \/ e.g_ended]

\* The attack-completion block at the end of the UpdateEnemies loop body.
EnemyAttackCompletion(e) ==
  IF e.isAttacking
  THEN IF e.attackTimer + 1 >= ENEMY_ATTACK_MIN
          \/ e.attackTimer + 1 >= ATTACK_TIMEOUT
       THEN EnemyAttackEnd(e)
       ELSE [e EXCEPT !.attackTimer = @ + 1]
  ELSE [e EXCEPT !.attackTimer = 0]

\* Update cooldowns
EnemyCooldown(e) ==
  [e EXCEPT !.attackCooldown = CountDown(@), !.g_ai = NoAI,
            !.g_rec.left = CountDown(@),
            !.g_sinceHit = IF e.wasHurt THEN Min(@ + 1, RetreatBound + 1)
                           ELSE @]

\* The stun countdown; the enemy skips its AI while the result is positive.
EnemyStun(e) ==
  IF e.stunTimer > 0
  THEN IF e.stunTimer > 1
       THEN [e EXCEPT !.stunTimer = @ - 1, !.state = "HURT",
                      !.currentAnimIndex = ANIM_HURT]
       ELSE [e EXCEPT !.stunTimer = 0]
  ELSE e

\* A grabbed enemy only keeps its hurt pose.
EnemyHeld(e) ==
  [e EXCEPT !.currentAnimIndex = ANIM_HURT, !.state = "HURT", !.rising = FALSE, !.falling = FALSE,
            !.vx = 0]

\* (history) what the AI step did, for an input in.
EnemyThought(e, in) ==
  [e EXCEPT !.g_ai = [@ EXCEPT !.ran = TRUE, !.far = in.band = 7,
                              !.aiState = e.aiState, !.vx = e.vx]]

\* if (!skipAI) ProcessEnemyAI (...)
EnemyThink(e, ps, numPlayers, in) ==
  IF e.stunTimer > 0 THEN e
  ELSE EnemyThought(ProcessEnemyAI(Phase(e, "ai"), ps, numPlayers, in), in)

\* Handle animation state changes
EnemyAnimChange(e) ==
  IF e.currentAnimIndex # e.lastAnimIndex
  THEN UpdateEnemyAnimationFrames(
         [e EXCEPT !.anim.currentFrame = 0, !.anim.timer = 0,
                   !.lastAnimIndex = e.currentAnimIndex])
  ELSE e

EnemyAnimate(e) == Phase([e EXCEPT !.anim = UpdateAnimation(@)], "animation")

\* Slow down enemy attack animation: anim.timer *= 0.5f
EnemySlowAttackAnim(e) ==
  IF e.isAttacking
  THEN [e EXCEPT !.anim.timer = @ \div 2,
                 !.anim.currentFrame = SafeClamp(@, 0, e.anim.totalFrames - 1)]
  ELSE e

\* The loop body after ProcessEnemyAttack; a holds the enemy and the players.
EnemyFinish(a) ==
  [e |-> [EnemyAttackCompletion(EnemySlowAttackAnim(a.e))
            EXCEPT !.g_startTick = FALSE],
   ps |-> a.ps]

\* The loop body of an enemy that is not grabbed, from the AI on.
EnemyMove(e, ps, numPlayers, in) ==
  EnemyFinish(
    ProcessEnemyAttack(
      EnemyAnimate(UpdatePhysics(
        EnemyAnimChange(EnemyThink(e, ps, numPlayers, in)), in.phys)),
      ps, numPlayers, in))

\* The body of the UpdateEnemies loop for a living enemy in slot i (after the
\* death-timer and health tests): the enemy and the players afterwards.
UpdateEnemy(e, i, ps, numPlayers, in) ==
  IF IsGrabbed(i, ps, numPlayers)
  THEN [e |-> EnemyHeld(EnemyStun(EnemyCooldown(e))), ps |-> ps]
  ELSE EnemyMove(EnemyStun(EnemyCooldown(e)), ps, numPlayers, in)

\* (mutant) the count shrinks, the last enemy is not moved into the gap
RemoveWithoutSwap(es, index) ==
  IF index < 0 \/ index >= Len(es) THEN es ELSE SubSeq(es, 1, Len(es) - 1)

\* RemoveDeadEnemy on the registry: swap with the last, shrink by one.
RemoveDeadEnemy(es, index) ==
  IF index < 0 \/ index >= Len(es) THEN es
  ELSE LET moved == IF index < Len(es) - 1
                    THEN [es EXCEPT ![index + 1] = es[Len(es)]]
                    ELSE es
       IN SubSeq(moved, 1, Len(es) - 1)

\* Whether RemoveDeadEnemy (index) removes a boss.
RemovedBoss(es, index) ==
  index >= 0 /\ index < Len(es) /\ es[index + 1].maxHealth > ENEMY_MAX_HEALTH

\* The loop of UpdateEnemies from slot i on; n counts the iterations and
\* selects the input ins[n] of the enemy processed.  The result holds the
\* registry, the players, whether a boss was removed, and (history) the
\* enemies removed with their g_deadTicks.
\* (mutant) the loop goes on behind the slot that was freed
IndexAfterRemovalSkipping(i) == i + 1

\* `i--; continue` and the loop's `i++`: the index the loop goes on with
\* after RemoveDeadEnemy (i).
IndexAfterRemoval(i) == i

RECURSIVE EnemiesLoop(_, _, _, _, _)
EnemiesLoop(i, n, st, numPlayers, ins) ==
  IF i >= Len(st.es) THEN st
  ELSE
  LET e == [st.es[i + 1] EXCEPT !.g_seen = @ + 1,
                                !.g_slot = [i |-> i, n |-> Len(st.es)]]
  IN IF e.deathTimer > 0
     THEN IF e.deathTimer - 1 <= 0
          THEN \* RemoveDeadEnemy (i); i--; continue
               EnemiesLoop(IndexAfterRemoval(i), n + 1,
                 [st EXCEPT !.es = RemoveDeadEnemy(st.es, i),
                            !.bossRemoved = @ \/ RemovedBoss(st.es, i),
                            !.removed = @ \cup {[id |-> e.id, age |-> e.g_deadTicks,
                                                 health |-> e.health,
                                                 seen |-> e.g_seen,
                                                 slot |-> e.g_slot]}],
                 numPlayers, ins)
          ELSE EnemiesLoop(i + 1, n + 1,
                 [st EXCEPT !.es[i + 1] =
                    [e EXCEPT !.deathTimer = @ - 1, !.currentAnimIndex = ANIM_HURT,
                              !.rising = FALSE, !.falling = FALSE, !.vx = 0,
                              !.g_deadTicks = @ + 1]],
                 numPlayers, ins)
     ELSE IF e.health <= 0
     THEN EnemiesLoop(i + 1, n + 1,
            [st EXCEPT !.es[i + 1] = [e EXCEPT !.g_deadTicks = @ + 1]],
            numPlayers, ins)
     ELSE LET u == UpdateEnemy(e, i, st.ps, numPlayers, ins[n])
          IN EnemiesLoop(i + 1, n + 1,
               [st EXCEPT !.es[i + 1] = u.e, !.ps = u.ps], numPlayers, ins)

UpdateEnemies(es, ps, numPlayers, ins) ==
  EnemiesLoop(0, 1,
              [es |-> [k \in 1..Len(es) |-> [es[k] EXCEPT !.g_seen = 0]],
               ps |-> ps, bossRemoved |-> FALSE, removed |-> {}],
              numPlayers, ins)

GetAliveEnemiesCount(es) ==
  Cardinality({k \in 1..Len(es) : es[k].health > 0 /\ es[k].deathTimer <= 0})

(***************************************************************************)
(* Level director (src/level.c)                                            *)
(***************************************************************************)
\* spawnInterval of the stages in steps of fixedDt until `spawnTimer >=
\* interval` holds: 3.5f, 3.0f, 2.6f (src/level.c:30,39,48).
SPAWN_INTERVAL_0 == 211
SPAWN_INTERVAL_1 == 181
SPAWN_INTERVAL_2 == 157
\* bossHealth of the last stage (src/level.c:45)
BOSS_HEALTH == 160

\* STAGE_DEFS [s] is STAGE_DEFS[s + 1] here.
STAGE_DEFS ==
  << [spawnQuota |-> 6, concurrentCap |-> 3, initialWave |-> 2, hasBoss |-> FALSE,
      bossHealth |-> 0, spawnInterval |-> SPAWN_INTERVAL_0],
     [spawnQuota |-> 8, concurrentCap |-> 4, initialWave |-> 3, hasBoss |-> FALSE,
      bossHealth |-> 0, spawnInterval |-> SPAWN_INTERVAL_1],
     [spawnQuota |-> 10, concurrentCap |-> 4, initialWave |-> 3, hasBoss |-> TRUE,
      bossHealth |-> BOSS_HEALTH, spawnInterval |-> SPAWN_INTERVAL_2] >>
STAGE_COUNT == Len(STAGE_DEFS)

\* The level state before any stage is initialised (the globals' initialisers).
NoLevel ==
  [currentStage |-> 0, stageHasBoss |-> FALSE, bossSpawned |-> FALSE,
   bossDefeated |-> FALSE, spawnTimer |-> 0, enemiesRemainingToSpawn |-> 0,
   maxConcurrentEnemies |-> 3, hasStageDef |-> FALSE,
   nextId |-> 1, spawned |-> {}, removed |-> {}, g_bosses |-> 0]

\* ConsumeEnemySpawnQuota, were it to leave the quota as it is.
ConsumeEnemySpawnQuotaIdle(lv, count) == lv

ConsumeEnemySpawnQuota(lv, count) ==
  IF count <= 0 \/ lv.enemiesRemainingToSpawn <= 0 THEN lv
  ELSE [lv EXCEPT !.enemiesRemainingToSpawn = Max(@ - count, 0)]

\* One InitEnemy into slot activeEnemies, activeEnemies++.
SpawnEnemy(w, health) ==
  [lv |-> [w.lv EXCEPT !.nextId = @ + 1, !.spawned = @ \cup {w.lv.nextId}],
   es |-> Append(w.es, [InitEnemy(w.lv.nextId) EXCEPT
                          !.health = health, !.maxHealth = health,
                          !.hitboxAtPos = health <= ENEMY_MAX_HEALTH])]

RECURSIVE SpawnWaveLoop(_, _, _)
SpawnWaveLoop(i, def, w) ==
  IF i < def.initialWave /\ Len(w.es) < MAX_ENEMIES
  THEN SpawnWaveLoop(i + 1, def, SpawnEnemy(w, ENEMY_MAX_HEALTH))
  ELSE w

SpawnInitialWave(def, w) ==
  IF def.initialWave <= 0 THEN w
  ELSE LET v == SpawnWaveLoop(0, def, w)
       IN [v EXCEPT !.lv = ConsumeEnemySpawnQuota(v.lv, def.initialWave)]

\* InitLevel (stage): the level state and the registry afterwards.
InitLevel(stage) ==
  LET stageIndex == SafeClamp(stage, 0, STAGE_COUNT - 1)
      def == STAGE_DEFS[stageIndex + 1]
  IN SpawnInitialWave(def,
       [lv |-> [currentStage |-> stageIndex, stageHasBoss |-> def.hasBoss,
                bossSpawned |-> FALSE, bossDefeated |-> FALSE, spawnTimer |-> 0,
                enemiesRemainingToSpawn |-> def.spawnQuota,
                maxConcurrentEnemies |-> def.concurrentCap, hasStageDef |-> TRUE,
                nextId |-> 1, spawned |-> {}, removed |-> {}, g_bosses |-> 0],
        es |-> << >>])

\* Timed spawns of UpdateLevel, were they made without regard to the
\* stage's concurrent cap.
LevelTimedSpawnUncapped(lv, es, def) ==
  IF lv.enemiesRemainingToSpawn > 0 /\ Len(es) < MAX_ENEMIES
  THEN IF lv.spawnTimer + 1 >= def.spawnInterval
       THEN SpawnEnemy([lv |-> ConsumeEnemySpawnQuota([lv EXCEPT !.spawnTimer = 0], 1),
                        es |-> es],
                       ENEMY_MAX_HEALTH)
       ELSE [lv |-> [lv EXCEPT !.spawnTimer = @ + 1], es |-> es]
  ELSE [lv |-> [lv EXCEPT !.spawnTimer = 0], es |-> es]

\* Timed spawns of UpdateLevel.
LevelTimedSpawn(lv, es, def) ==
  IF lv.enemiesRemainingToSpawn > 0 /\ Len(es) < lv.maxConcurrentEnemies
     /\ Len(es) < MAX_ENEMIES
  THEN IF lv.spawnTimer + 1 >= def.spawnInterval
       THEN SpawnEnemy([lv |-> ConsumeEnemySpawnQuota([lv EXCEPT !.spawnTimer = 0], 1),
                        es |-> es],
                       ENEMY_MAX_HEALTH)
       ELSE [lv |-> [lv EXCEPT !.spawnTimer = @ + 1], es |-> es]
  ELSE [lv |-> [lv EXCEPT !.spawnTimer = 0], es |-> es]

\* The boss spawn of UpdateLevel, were it made without regard to the enemies
\* still in the registry.
LevelBossSpawnCrowded(w, def, atTrigger) ==
  IF w.lv.stageHasBoss /\ ~ w.lv.bossSpawned /\ ~ w.lv.bossDefeated
     /\ w.lv.enemiesRemainingToSpawn <= 0
     /\ atTrigger /\ Len(w.es) < MAX_ENEMIES
  THEN SpawnEnemy([lv |-> [w.lv EXCEPT !.bossSpawned = TRUE, !.g_bosses = @ + 1],
                   es |-> w.es],
                  def.bossHealth)
  ELSE w

\* The boss spawn of UpdateLevel; lv.g_bosses counts the bosses spawned in
\* the stage.
LevelBossSpawn(w, def, atTrigger) ==
  IF w.lv.stageHasBoss /\ ~ w.lv.bossSpawned /\ ~ w.lv.bossDefeated
     /\ w.lv.enemiesRemainingToSpawn <= 0 /\ Len(w.es) = 0
     /\ atTrigger /\ Len(w.es) < MAX_ENEMIES
  THEN SpawnEnemy([lv |-> [w.lv EXCEPT !.bossSpawned = TRUE, !.g_bosses = @ + 1],
                   es |-> w.es],
                  def.bossHealth)
  ELSE w

\* UpdateLevel; atTrigger is the outcome of `playerLeadX >= triggerX`.
UpdateLevel(lv, es, atTrigger) ==
  IF ~ lv.hasStageDef THEN [lv |-> lv, es |-> es]
  ELSE LevelBossSpawn(LevelTimedSpawn(lv, es, STAGE_DEFS[lv.currentStage + 1]),
                      STAGE_DEFS[lv.currentStage + 1], atTrigger)

LevelIsCleared(lv, es) ==
  /\ lv.stageHasBoss => lv.bossDefeated
  /\ lv.enemiesRemainingToSpawn <= 0
  /\ GetAliveEnemiesCount(es) = 0
  /\ ~ (lv.stageHasBoss /\ lv.bossSpawned /\ ~ lv.bossDefeated)

(***************************************************************************)
(* Game loop (src/main.c)                                                  *)
(***************************************************************************)
\* InitializeGameState: both player slots for numPlayers participants.
InitializeGameState(numPlayers) ==
  [i \in 1..2 |-> IF i - 1 < numPlayers THEN InitPlayer
                  ELSE [ZeroEntity EXCEPT !.health = 0, !.state = "DEAD"]]

\* ResetPlayersForStage
\* ResetPlayersForStage, were it to leave every player as InitPlayer does.
ResetPlayersForStageReviving(ps, numPlayers) ==
  [i \in 1..2 |-> IF i - 1 < numPlayers THEN InitPlayer ELSE ps[i]]

ResetPlayersForStage(ps, numPlayers) ==
  [i \in 1..2 |->
     IF i - 1 < numPlayers
     THEN IF ps[i].health > 0
          THEN [InitPlayer EXCEPT !.health = ps[i].health]
          ELSE [InitPlayer EXCEPT !.health = 0, !.state = "DEAD"]
     ELSE ps[i]]

\* The game-over test of the main loop.
AllPlayersDead(ps, numPlayers) ==
  \A i \in 1..numPlayers : ~ (ps[i].health > 0 \/ ps[i].deathTimer > 0)

VARIABLES
  players,      \* Player players[2]
  playerCount,  \* int playerCount
  enemies,      \* enemies[0 .. activeEnemies-1]; activeEnemies is Len(enemies)
  lv,           \* the level director's globals, with the history of spawns
  gameState,    \* GameState gameState
  pc,           \* where the main loop is within the frame
  cur,          \* the player whose UpdatePlayer is next (C index)
  env,          \* the surroundings: geometry and the user's remaining key events
  phases,       \* (history) the phases run in the fixed step in progress
  accumulator,  \* float accumulator, in units of fixedDt / FIXED_DT
  substeps,     \* int substeps
  actor         \* the entity of the single calls of SpecCalls, else << >>

vars ==
  <<players, playerCount, enemies, lv, gameState, pc, cur, env, phases,
    accumulator, substeps, actor>>

\* Frame times are counted in quarters of the fixed step: fixedDt = 1/60 s
\* (src/main.c:425) is FIXED_DT units, and the cap of 1/30 s on a frame's
\* time (src/main.c:422-423) is MAX_DT units.
FIXED_DT == 4
MAX_DT == 8
\* `substeps < 3` (src/main.c:516)
MAX_SUBSTEPS == 3

\* (history) the phases of one update as entries of `phases`.
Tagged(who, ph) == [i \in 1..Len(ph) |-> [who |-> who, phase |-> ph[i]]]

\* (history) the phases of the enemies' updates, in registry order.
RECURSIVE EnemyPhases(_)
EnemyPhases(es) ==
  IF es = << >> THEN << >>
  ELSE Tagged(<<"enemy", Head(es).id>>, Head(es).g_phases)
       \o EnemyPhases(Tail(es))

activeEnemies == Len(enemies)

(***************************************************************************)
(* The surroundings.                                                       *)
(*                                                                         *)
(* env.scene is how the actors stand to each other:                        *)
(*   "far"        no player within an enemy's targeting radius             *)
(*   "edge"       players within the targeting radius of the enemies       *)
(*                (ENEMY_SIGHT_DIST + 1) but beyond ENEMY_SIGHT_DIST       *)
(*   "sight"      players in sight but out of reach of any attack or grab  *)
(*   "contact"    everybody within attack range and grab radius of         *)
(*                everybody; the nearest enemy is the one in the lowest    *)
(*                slot                                                     *)
(*   "contactRev" as "contact", the nearest enemy is the one in the        *)
(*                highest slot                                             *)
(* env.keys is the number of key events the user still makes at frames of  *)
(* their choice, within env.horizon frames if that is not 0 (env.ticks     *)
(* counts them); env.script is a list of keys each pressed in the first    *)
(* frame in which the game accepts it; env.mash is a key pressed in every  *)
(* frame in which the game accepts it ("none": no such key); env.move is   *)
(* whether a direction key is held down; env.kick and env.evade are the    *)
(* outcomes of rand (); env.p2 is whether a second user plays (a key of    *)
(* player 2 is down in every frame); env.atTrigger and env.atEnd are       *)
(* whether the leading player stands beyond the boss trigger and at the    *)
(* stage end.  env.arrive, if not 0, is the frame in whose UpdateEnemies   *)
(* the enemies walk from env.scene into scene env.next, and env.arrived is *)
(* where the clip of player 0 stood at that moment (FramePhase).           *)
(* env.pace is the largest time GetFrameTime () returns in the run, in     *)
(* quarters of the fixed step (0: every frame takes exactly one fixed      *)
(* step); env.dt is the clamped time of the frame in progress, env.rest    *)
(* the part of the accumulator that the frame before left unconsumed, and  *)
(* env.lag the clamped frame time summed over the run minus the time       *)
(* simulated (counted up to LagCap).                                       *)
(***************************************************************************)
Slots(n) == 0..(n - 1)

\* <<0, 1, ..., n-1>>
Ascending(n) == [i \in 1..n |-> i - 1]
\* <<n-1, ..., 1, 0>>
Descending(n) == [i \in 1..n |-> n - i]

InContact(scene) == scene \in {"contact", "contactRev"}

SceneReach(scene, n) ==
  IF scene = "contact" THEN Ascending(n)
  ELSE IF scene = "contactRev" THEN Descending(n)
  ELSE << >>

SceneOverlap(scene, n) == IF InContact(scene) THEN Slots(n) ELSE {}

SceneNear(scene) == IF scene = "far" THEN << >> ELSE <<0, 1>>

SceneBand(scene) ==
  IF InContact(scene) THEN 2 ELSE IF scene = "sight" THEN 6 ELSE 7

\* Flat ground; a jump rises and falls for as long as the geometry says.
PlayerPhys(p, k) ==
  IF p.grounded /\ ~ k.jump
  THEN {[supported |-> TRUE, apex |-> TRUE, lands |-> TRUE]}
  ELSE {[supported |-> TRUE, apex |-> b, lands |-> b] : b \in BOOLEAN}
EnemyPhys == [supported |-> TRUE, apex |-> TRUE, lands |-> TRUE]

NoKeys ==
  [move |-> FALSE, jump |-> FALSE, atk |-> "none", grabPressed |-> FALSE,
   grabReleased |-> FALSE]

\* The key events of one frame that count against env.keys.
KeyEvents ==
  {[NoKeys EXCEPT !.atk = k] : k \in {"J", "L", "K"}}
  \cup {[NoKeys EXCEPT !.jump = TRUE],
        [NoKeys EXCEPT !.grabPressed = TRUE],
        [NoKeys EXCEPT !.grabReleased = TRUE],
        [NoKeys EXCEPT !.atk = "K", !.grabPressed = TRUE],
        [NoKeys EXCEPT !.atk = "J", !.jump = TRUE]}

\* Whether the game would act on key k of a script for player p now.
Accepts(p, es, k, scene) ==
  /\ CanControl(p) /\ p.deathTimer <= 0
  /\ CASE k \in {"J", "L", "K"} -> p.attackCooldown <= 0
       [] k \in {"G", "KG"} -> p.grabbedEnemyIndex = -1 /\ p.grounded
                     /\ ClosestEnemy(SceneReach(scene, Len(es)), es) # -1
                     /\ (k = "KG" => p.attackCooldown <= 0)
       [] k = "R" -> p.grabbedEnemyIndex # -1
       [] k = "W" -> p.grounded
       [] k = "M" -> TRUE
       [] OTHER -> FALSE

\* The keys a script key stands for.
KeysOf(k) ==
  CASE k \in {"J", "L", "K"} -> [NoKeys EXCEPT !.atk = k]
    [] k = "G" -> [NoKeys EXCEPT !.grabPressed = TRUE]
    [] k = "KG" -> [NoKeys EXCEPT !.atk = "K", !.grabPressed = TRUE]
    [] k \in {"R", "RR"} -> [NoKeys EXCEPT !.grabReleased = TRUE]
    [] k = "W" -> [NoKeys EXCEPT !.jump = TRUE]
    [] k = "M" -> [NoKeys EXCEPT !.move = TRUE]
    [] OTHER -> NoKeys

\* A script item: key k, pressed in the first frame that accepts it once w
\* frames have passed since the item before.  "RR" is the grab key let go
\* in the first frame after the wait, whatever the player is doing then.
S(k, w) == [key |-> k, wait |-> w]

\* The script item that is due, if any, is for player 0.
ScriptDue(c) ==
  c = 0 /\ env.script # << >> /\ env.waited >= Head(env.script).wait

\* The possible (keys, env afterwards) of the frame of player number c.
KeyChoices(c, p, es) ==
  LET scripted == ScriptDue(c) /\ Head(env.script).key # "X"
                  /\ (Accepts(p, es, Head(env.script).key, env.scene)
                      \/ Head(env.script).key = "RR")
      mashed == c = 0 /\ env.mash # "none" /\ Accepts(p, es, env.mash, env.scene)
      e1 == IF c = 0 /\ env.script # << >> /\ ~ ScriptDue(c)
            THEN [env EXCEPT !.waited = @ + 1]
            ELSE env
      base == IF scripted
              THEN [keys |-> KeysOf(Head(env.script).key),
                    env |-> [env EXCEPT !.script = Tail(@), !.waited = 0]]
              ELSE IF mashed
              THEN [keys |-> KeysOf(env.mash), env |-> e1]
              ELSE [keys |-> NoKeys, env |-> e1]
  IN {base}
     \cup (IF env.keys > 0 /\ ~ scripted /\ ~ mashed
           THEN {[keys |-> k, env |-> [e1 EXCEPT !.keys = @ - 1]] : k \in KeyEvents}
                \cup {[keys |-> NoKeys,
                       env |-> [e1 EXCEPT !.keys = @ - 1, !.move = ~ @]]}
           ELSE {})

\* The input of UpdatePlayer for keys k in the scene.
PlayerInput(k, e, es, phys) ==
  [move |-> k.move \/ e.move, jump |-> k.jump, atk |-> k.atk,
   grabPressed |-> k.grabPressed, grabReleased |-> k.grabReleased,
   reach |-> SceneReach(e.scene, Len(es)),
   overlap |-> SceneOverlap(e.scene, Len(es)), phys |-> phys]

\* Where the frame of p's clip stands with respect to the hit window that
\* the hit detection of ProcessPlayerInput computes.
FramePhase(p) ==
  IF p.g_clip < ANIM_JAB \/ p.g_clip > ANIM_DIVE_KICK THEN "noclip"
  ELSE IF p.anim.currentFrame < HitStart(p) THEN "before"
  ELSE IF p.anim.currentFrame < HitEnd(p) THEN "in"
  ELSE IF p.anim.currentFrame = HitEnd(p) THEN "last"
  ELSE "past"

\* The enemies' walk of this frame: into contact when the plan says so.
Arrival(e, ps) ==
  IF e.arrive > 0 /\ e.ticks = e.arrive
  THEN [e EXCEPT !.scene = e.next, !.arrived = FramePhase(ps[1])]
  ELSE e

\* The input of one enemy's update in the scene.
EnemyInput ==
  [near |-> SceneNear(env.scene), band |-> SceneBand(env.scene),
   kick |-> env.kick, evade |-> env.evade,
   overlap |-> IF InContact(env.scene) THEN {0, 1} ELSE {},
   phys |-> EnemyPhys]

(***************************************************************************)
(* The program: one action per step of the main loop's frame               *)
(* (src/main.c:418-604).  Every frame runs one fixed step.                 *)
(***************************************************************************)
\* StartNewGame
StartNewGame ==
  LET w == InitLevel(0)
  IN /\ lv' = w.lv
     /\ enemies' = w.es
     /\ players' = InitializeGameState(playerCount')
     /\ gameState' = "PLAYING"

\* Player 2 joins: InitPlayer (&players[1], p2Pos), playerCount = 2.
ActivateP2(ps) == [ps EXCEPT ![2] = InitPlayer]

\* Player 2 leaves after 5 s without input.
DeactivateP2(ps) ==
  [ps EXCEPT ![2] = [@ EXCEPT !.health = 0, !.state = "DEAD", !.deathTimer = 0,
                              !.rising = FALSE, !.falling = FALSE, !.g_dmg = 0]]

\* The cap on the count env.lag: two fixed steps.
LagCap == 2 * FIXED_DT

\* The values of `dt` after the cap, for frame times up to `pace`.
FrameTimes(pace) ==
  IF pace = 0 THEN {FIXED_DT} ELSE {Min(t, MAX_DT) : t \in 1..pace}

\* The head of the loop body: menu, player 2 joining and leaving, restart.
\* p2Input: a key of player 2 is down; p2Idle: player 2 gave no input for
\* more than 5 s; startKey: Enter/Space/R as the state at hand asks for.
FrameBegin ==
  /\ pc = "frame"
  /\ env.horizon > 0 => env.ticks < env.horizon
  /\ \E p2Input \in BOOLEAN, p2Idle \in BOOLEAN, startKey \in BOOLEAN,
        dt \in FrameTimes(env.pace) :
       /\ ~ (p2Input /\ p2Idle)
       /\ (p2Input \/ p2Idle) => gameState # "MENU"
       /\ IF env.p2 THEN p2Input <=> gameState # "MENU"
                   ELSE (p2Input \/ p2Idle) => env.keys > 0
       /\ startKey <=> gameState # "PLAYING"
       /\ env' = [env EXCEPT
                    !.keys = IF ~ env.p2 /\ (p2Input \/ p2Idle) THEN @ - 1 ELSE @,
                    !.ticks = IF env.horizon > 0 THEN @ + 1 ELSE @,
                    !.dt = dt, !.lag = Min(@ + dt, LagCap)]
       /\ accumulator' = dt
       /\ substeps' = 0
       /\ IF gameState = "MENU"
          THEN /\ playerCount' = playerCount
               /\ StartNewGame
          ELSE /\ playerCount' = IF playerCount = 1 /\ p2Input THEN 2
                                 ELSE IF playerCount = 2 /\ p2Idle THEN 1
                                 ELSE playerCount
               /\ IF gameState \in {"GAME_OVER", "WIN"}
                  THEN StartNewGame
                  ELSE /\ players' = IF playerCount = 1 /\ p2Input
                                     THEN ActivateP2(players)
                                     ELSE IF playerCount = 2 /\ p2Idle
                                     THEN DeactivateP2(players)
                                     ELSE players
                       /\ UNCHANGED <<lv, enemies, gameState>>
       /\ pc' = IF gameState' # "PLAYING" THEN "frame"
                ELSE IF accumulator' >= FIXED_DT THEN "player" ELSE "end"
       /\ cur' = 0
       /\ phases' = << >>
  /\ UNCHANGED actor

\* UpdatePlayer (&players[cur], fixedDt, cur == 1)
PlayerStep ==
  /\ pc = "player"
  /\ \E c \in KeyChoices(cur, players[cur + 1], enemies) :
       \E phys \in PlayerPhys(players[cur + 1], c.keys) :
         \E r \in {UpdatePlayer(players[cur + 1], enemies,
                                PlayerInput(c.keys, c.env, enemies, phys))} :
            /\ players' = [players EXCEPT
                            ![cur + 1] = [r.p EXCEPT !.g_phases = << >>]]
            /\ enemies' = r.es
            /\ env' = c.env
            /\ phases' = phases \o Tagged(<<"player", cur>>, r.p.g_phases)
  /\ IF cur + 1 < playerCount
     THEN cur' = cur + 1 /\ pc' = pc
     ELSE cur' = 0 /\ pc' = "enemies"
  /\ UNCHANGED <<playerCount, lv, gameState, accumulator, substeps, actor>>

\* UpdateEnemies (players, playerCount, fixedDt)
EnemiesStep ==
  /\ pc = "enemies"
  /\ \E r \in {UpdateEnemies(enemies, players, playerCount,
                             [n \in 1..Len(enemies) |-> EnemyInput])} :
        /\ enemies' = [k \in 1..Len(r.es) |->
                         [r.es[k] EXCEPT !.g_phases = << >>]]
        /\ players' = r.ps
        /\ phases' = phases \o EnemyPhases(r.es)
        /\ lv' = [lv EXCEPT !.removed = @ \cup r.removed,
                            !.bossSpawned = IF r.bossRemoved THEN FALSE ELSE @,
                            !.bossDefeated = IF r.bossRemoved THEN TRUE ELSE @]
  /\ env' = Arrival(env, players)
  /\ pc' = "level"
  /\ UNCHANGED <<playerCount, gameState, cur, accumulator, substeps, actor>>

\* UpdateLevel (fixedDt, ComputeLeadPlayerX (players, playerCount))
LevelStep ==
  /\ pc = "level"
  /\ \E w \in {UpdateLevel(lv, enemies, env.atTrigger)} :
        lv' = w.lv /\ enemies' = w.es
  /\ accumulator' = accumulator - FIXED_DT
  /\ substeps' = substeps + 1
  /\ pc' = IF accumulator' >= FIXED_DT /\ substeps' < MAX_SUBSTEPS
           THEN "player" ELSE "end"
  /\ phases' = << >>
  /\ env' = [env EXCEPT !.lag = @ - FIXED_DT]
  /\ UNCHANGED <<players, playerCount, gameState, cur, actor>>

\* The tail of the loop body: game over, stage clear, win.
FrameEnd ==
  /\ pc = "end"
  /\ pc' = "frame"
  /\ IF AllPlayersDead(players, playerCount)
     THEN /\ gameState' = "GAME_OVER"
          /\ UNCHANGED <<players, enemies, lv>>
     ELSE IF LevelIsCleared(lv, enemies) /\ env.atEnd
     THEN IF lv.currentStage + 1 >= STAGE_COUNT
          THEN /\ gameState' = "WIN"
               /\ UNCHANGED <<players, enemies, lv>>
          ELSE LET w == InitLevel(lv.currentStage + 1)
               IN /\ lv' = w.lv
                  /\ enemies' = w.es
                  /\ players' = ResetPlayersForStage(players, playerCount)
                  /\ gameState' = gameState
     ELSE UNCHANGED <<players, enemies, lv, gameState>>
  /\ env' = [env EXCEPT !.rest = accumulator]
  /\ UNCHANGED <<playerCount, cur, phases, accumulator, substeps, actor>>

Next == FrameBegin \/ PlayerStep \/ EnemiesStep \/ LevelStep \/ FrameEnd

\* The runs explored: how many key events at free times, and for how many
\* frames such a run lasts.
MaxKeys == 1
Horizon == 60

\* The largest delay, in frames, tried for a delayed key of a script.
MaxWait == 12

BaseEnv ==
  [scene |-> "contact", keys |-> 0, script |-> << >>, waited |-> 0,
   mash |-> "none", move |-> FALSE, kick |-> FALSE, evade |-> FALSE,
   p2 |-> FALSE, atTrigger |-> TRUE, atEnd |-> TRUE, horizon |-> 0, ticks |-> 0,
   arrive |-> 0, next |-> "contact", arrived |-> "none", pace |-> 0, dt |-> FIXED_DT, rest |-> 0,
   lag |-> 0]

\* Free play: MaxKeys key events at any frames within the horizon.
FreePlans ==
  {[BaseEnv EXCEPT !.keys = MaxKeys, !.horizon = Horizon, !.kick = k] :
     k \in BOOLEAN}

\* The player kicks whenever the game accepts it, through all the stages.
CampaignPlan == [BaseEnv EXCEPT !.mash = "K"]

\* How long, in frames, the player of a script holds an enemy before it
\* attacks again.
HoldWait == 125

\* Three kicks kill the enemy in slot 0, the last one delayed by w frames;
\* then the player grabs the next enemy and, after holding it for a while,
\* kicks on.
GrabPlans ==
  {[BaseEnv EXCEPT !.script = <<S("K", 0), S("K", 0), S("K", w), S("G", 0),
                                S("K", HoldWait), S("K", 0), S("K", 0)>>] :
     w \in KICK_COOLDOWN..(KICK_COOLDOWN + MaxWait)}

\* The latest frame at which the enemies of a plan walk into contact.
MaxArrive == 34

\* The delays, in frames, between a jump and the attack key of an air attack.
AirWaits == {0, 3}

\* One attack, on the ground or in the air, with the enemies out of reach
\* until they walk into contact at some frame of the swing or after it.
ArrivePlans ==
  {[BaseEnv EXCEPT !.scene = "sight", !.script = sc, !.arrive = a,
                   !.horizon = MaxArrive + 3] :
     sc \in {<<S(k, 0)>> : k \in {"J", "L", "K"}}
             \cup {<<S("W", 0), S("K", w)>> : w \in AirWaits},
     a \in 1..MaxArrive}

\* The latest frame at which the enemies of a plan are left behind.
MaxLeave == 50

\* One kick in contact; later the players and the enemies are carried apart,
\* to just beyond the sight distance or out of the targeting radius.
LeavePlans ==
  {[BaseEnv EXCEPT !.script = <<S("K", 0)>>, !.arrive = a, !.next = n,
                   !.horizon = MaxLeave + 3] :
     a \in 1..MaxLeave, n \in {"edge", "far"}}

\* One kick in contact; then the enemies are left out of the targeting
\* radius, or the enemy that was hit is grabbed and held.
StallPlans ==
  {[BaseEnv EXCEPT !.script = <<S("K", 0)>>, !.arrive = a, !.next = "far",
                   !.horizon = RetreatBound + KICK_COOLDOWN] :
     a \in {KICK_COOLDOWN, 2 * KICK_COOLDOWN}}
  \cup {[BaseEnv EXCEPT !.script = <<S("K", 0), S("G", 0)>>,
                        !.horizon = RetreatBound + KICK_COOLDOWN]}

\* How long, in frames, the runs with a held enemy last.
HeldHorizon == 40

\* Player 0 grabs an enemy and holds it; some player presses one key at
\* some frame.  Or player 0 kicks while holding and lets the grab key go
\* during the kick or after it.
HeldPlans ==
  {[BaseEnv EXCEPT !.script = <<S("G", 0)>>, !.p2 = b, !.keys = 1,
                   !.horizon = HeldHorizon] : b \in BOOLEAN}
  \cup {[BaseEnv EXCEPT !.script = <<S("G", 0), S("K", 2), S("RR", w)>>,
                        !.horizon = HeldHorizon] : w \in {1, KICK_COOLDOWN}}

\* Kick and grab in one frame, then a tap on a direction key or a jump.
StuckPlans ==
  {[BaseEnv EXCEPT !.script = <<S("KG", 0), S(k, 0)>>,
                   !.horizon = ATTACK_TIMEOUT + 5] : k \in {"M", "W"}}

\* The frame times tried, in quarters of the fixed step, and for how many
\* frames.
MaxFrameTime == 9
PaceHorizon == 3

\* Frames of any length up to MaxFrameTime, no keys.
PacePlan == [BaseEnv EXCEPT !.pace = MaxFrameTime, !.horizon = PaceHorizon]

Plans ==
  FreePlans \cup {CampaignPlan} \cup GrabPlans \cup ArrivePlans \cup StuckPlans
  \cup {PacePlan} \cup LeavePlans \cup StallPlans \cup HeldPlans

\* The state `main` has built when it enters its loop.
InitWith(plans) ==
  /\ players = <<ZeroEntity, ZeroEntity>>
  /\ playerCount = 1
  /\ enemies = << >>
  /\ lv = NoLevel
  /\ gameState = "MENU"
  /\ pc = "frame"
  /\ cur = 0
  /\ env \in plans
  /\ phases = << >>
  /\ accumulator = 0
  /\ substeps = 0

Init == InitWith(Plans) /\ actor = << >>

Spec == Init /\ [][Next]_vars

(***************************************************************************)
(* Damage to players.  DamageEntity is called on a player only by          *)
(* ProcessEnemyAttack, when an attacking enemy's frame is inside its hit   *)
(* window.  SpecApi adds that call as a step of its own, made on a living  *)
(* player between the player updates and UpdateEnemies whenever the        *)
(* script's next item is "X": the damage of an enemy's kick.               *)
(***************************************************************************)
ApiDue == pc = "enemies" /\ ScriptDue(0) /\ Head(env.script).key = "X"

ApiDamage ==
  /\ ApiDue
  /\ \E j \in LivingPlayersIn({0, 1}, players, playerCount) :
       players' = [players EXCEPT ![j + 1] =
                     DamageEntity(@, ENEMY_ATTACK_KICK_PROFILE.damage, FALSE)]
  /\ env' = [env EXCEPT !.script = Tail(@), !.waited = 0]
  /\ UNCHANGED <<playerCount, enemies, lv, gameState, pc, cur, phases,
                 accumulator, substeps, actor>>

NextApi ==
  \/ ApiDamage
  \/ FrameBegin
  \/ PlayerStep
  \/ ~ ApiDue /\ EnemiesStep
  \/ LevelStep
  \/ FrameEnd

\* Player 0 is hit w frames into an attack of its own, then presses any key
\* in any frame, the attack keys included, until the recovery cooldown
\* (ATTACK_COOLDOWN steps) is over.
RecoverHorizon == 38

RecoverPlans ==
  {[BaseEnv EXCEPT !.script = <<S(k, 0), S("X", w)>>, !.keys = 1,
                   !.horizon = RecoverHorizon] :
     k \in {"J", "K"}, w \in {0, 3}}

\* Five kicks kill a player.
Lethal == <<S("X", 0), S("X", 0), S("X", 0), S("X", 0), S("X", 0)>>

\* A player is killed, alone or with a second player in the game; or it is
\* killed while it holds an enemy, after it killed the enemy in slot 0; or
\* it is killed after it threw the enemy it held.
ApiPlans ==
  {[BaseEnv EXCEPT !.script = Lethal, !.p2 = b] : b \in BOOLEAN}
  \cup {[BaseEnv EXCEPT !.p2 = b,
           !.script = <<S("K", 0), S("K", 0), S("K", w), S("G", 0)>>
                      \o Lethal \o <<S("J", 0)>>] :
          b \in BOOLEAN, w \in {0, KICK_COOLDOWN + MaxWait}}
  \cup {[BaseEnv EXCEPT !.p2 = TRUE,
           !.script = <<S("K", 0), S("K", 0), S("K", 0), S("G", 0), S("R", 3)>>
                      \o Lethal]}
  \cup RecoverPlans

InitApi == InitWith(ApiPlans) /\ actor = << >>

SpecApi == InitApi /\ [][NextApi]_vars

\* The frame of the campaign, a few frames after the kick that kills the
\* boss, in which the player is killed.
LastStand == 3545

\* A player is killed, alone or with a second player in the game; or the
\* player of the campaign is killed while the boss lies dying; or the two
\* players of a campaign take five hits between them in one of its frames.
DeathPlans ==
  {[BaseEnv EXCEPT !.script = Lethal, !.p2 = b] : b \in BOOLEAN}
  \cup {[BaseEnv EXCEPT !.mash = "K",
           !.script = <<S("X", LastStand)>> \o Tail(Lethal)]}
  \cup {[BaseEnv EXCEPT !.mash = "K", !.p2 = TRUE,
           !.script = <<S("X", MaxWait)>> \o Tail(Lethal)]}

SpecDeath == InitWith(DeathPlans) /\ actor = << >> /\ [][NextApi]_vars

(***************************************************************************)
(* Single calls.  SpecCalls applies UpdatePhysics to one body over and     *)
(* over.  Before each of the first MaxPushes calls the velocity may be     *)
(* written: by the writes the game makes (walking, a jump, a throw) and,   *)
(* for the function's whole domain, with a speed beyond the stage's size.  *)
(***************************************************************************)
MaxCalls == 60
MaxPushes == 2
HugeSpeed == 2000000
ClipLengths == {-1, 0, 1, 3, 5}

\* The bodies as InitPlayer and InitEnemy leave them: a player, an enemy or
\* the boss of the third stage, at spawn height with the hitbox at the
\* position.
Bodies ==
  {[role |-> "body", x |-> x, y |-> GROUND_Y - PLAYER_HEIGHT, vx |-> 0, vy |-> 0,
    maxHealth |-> m, isPlayer |-> m = PLAYER_MAX_HEALTH,
    grounded |-> TRUE, stage |-> IF m = BOSS_HEALTH THEN 2 ELSE 0,
    hitbox |-> [x |-> x, y |-> GROUND_Y - PLAYER_HEIGHT,
                width |-> PLAYER_WIDTH, height |-> PLAYER_HEIGHT],
    calls |-> 0] :
     x \in {0, 333000, 1674000, 1757700},
     m \in {PLAYER_MAX_HEALTH, ENEMY_MAX_HEALTH, BOSS_HEALTH}}

\* The body after a write of its velocity.
Pushes(e) ==
  {[e EXCEPT !.vx = v] : v \in {0, 3000, -3000, HugeSpeed, - HugeSpeed}}
  \cup {[e EXCEPT !.vy = v] : v \in {HugeSpeed, - HugeSpeed}}
  \cup {[e EXCEPT !.vx = v, !.vy = -3000] : v \in {6000, -6000}}
  \cup (IF e.grounded THEN {[e EXCEPT !.vy = -6000]} ELSE {})

PhysicsCall ==
  /\ actor.role = "body" /\ actor.calls < MaxCalls
  /\ \E e \in {actor} \cup (IF actor.calls < MaxPushes THEN Pushes(actor)
                              ELSE {}) :
       actor' = [UpdatePhysicsAt(e) EXCEPT !.calls = @ + 1]
  /\ UNCHANGED <<players, playerCount, enemies, lv, gameState, pc, cur, env,
                 phases, accumulator, substeps>>

\* The values an Animation can hold before a call: a clip of no, one or
\* several frames, the frame index inside the clip or beside it, the timer
\* below one frame or above two.  `before` is the value the last call got.
Animations ==
  UNION {{[role |-> "clip", calls |-> 0,
            anim |-> [currentFrame |-> f, timer |-> t, totalFrames |-> n],
            before |-> [currentFrame |-> f, timer |-> t, totalFrames |-> n]] :
             f \in (-1)..(n + 1),
             t \in {0, ANIM_ONE \div 2, ANIM_ONE - 1, (5 * ANIM_ONE) \div 2}} :
          n \in ClipLengths}

AnimationCall ==
  /\ actor.role = "clip" /\ actor.calls < MaxCalls
  /\ actor' = [actor EXCEPT !.anim = UpdateAnimation(@), !.before = actor.anim,
                            !.calls = @ + 1]
  /\ UNCHANGED <<players, playerCount, enemies, lv, gameState, pc, cur, env,
                 phases, accumulator, substeps>>

SpecCalls ==
  /\ InitWith({BaseEnv}) /\ actor \in Bodies \cup Animations
  /\ [][PhysicsCall \/ AnimationCall]_vars

(***************************************************************************)
(* Properties                                                              *)
(***************************************************************************)
\* The players that take part.
Participants == 0..(playerCount - 1)

\* Player j has completed its UpdatePlayer of this frame and nothing has
\* happened to the enemies since.
JustUpdated(j) ==
  \/ pc = "player" /\ cur = j + 1
  \/ pc = "enemies" /\ j = playerCount - 1

HealthInRange(e) == 0 <= e.health /\ e.health <= e.maxHealth

\* The last DamageEntity call on e, if any, left max(0, health - dmg).
DamageSubtracted(e) ==
  e.g_dmg > 0 => e.health = Max(0, e.g_hpBefore - e.g_dmg)

\* C1: the health of every player, enemy and boss stays within 0 and its
\* maxHealth, and a DamageEntity call with dmg > 0 leaves the target with
\* max(0, health - dmg).
C1_HealthBounded ==
  /\ \A i \in 1..2 : HealthInRange(players[i]) /\ DamageSubtracted(players[i])
  /\ \A k \in 1..Len(enemies) :
       HealthInRange(enemies[k]) /\ DamageSubtracted(enemies[k])

\* A hit has met an enemy with less health left than its damage.
C1_Witness ==
  \E k \in 1..Len(enemies) :
    /\ enemies[k].g_dmg > enemies[k].g_hpBefore
    /\ enemies[k].g_hpBefore > 0
    /\ enemies[k].health = 0

\* C2: an attack started by StartEnemyAttack, met by a living player's hitbox
\* on every tick until it completes, has damaged a player exactly once when
\* the enemy returns to the chase.
C2_EnemyAttackHitsOnce ==
  \A k \in 1..Len(enemies) :
    enemies[k].g_ended /\ enemies[k].g_always => enemies[k].g_hits = 1

\* C3: a player's attack damages at most once per swing, and exactly once
\* when a living enemy's hitbox met it on every tick of the swing.
C3_PlayerAttackHitsOnce ==
  \A j \in Participants :
    /\ players[j + 1].g_hits <= 1
    /\ players[j + 1].g_ended /\ players[j + 1].g_always
         => players[j + 1].g_hits = 1

\* C4: a DamageEntity call that takes the health to 0 while the death timer
\* is not started fires the death cue exactly once, and it is not fired
\* again for that entity.
C4_DeathCueOnce ==
  /\ \A i \in 1..2 :
       players[i].g_cues <= 1 /\ (players[i].g_killed => players[i].g_cues = 1)
  /\ \A k \in 1..Len(enemies) :
       enemies[k].g_cues <= 1 /\ (enemies[k].g_killed => enemies[k].g_cues = 1)

\* The enemy player j grabbed is in the registry, and alive or dead only
\* since this frame.
HeldAlive(j) ==
  \E k \in 1..Len(enemies) :
    /\ enemies[k].id = players[j + 1].g_heldId
    /\ enemies[k].health > 0 \/ enemies[k].g_deadTicks = 0

\* C5: when a player has completed an UpdatePlayer, a grab reference it
\* still has is an index below activeEnemies and the enemy it grabbed is
\* neither dead nor removed.
C5_GrabCleared ==
  \A j \in Participants :
    JustUpdated(j) /\ players[j + 1].grabbedEnemyIndex # -1
      => /\ players[j + 1].grabbedEnemyIndex < activeEnemies
         /\ HeldAlive(j)

RegistryIds == {enemies[k].id : k \in 1..Len(enemies)}
RemovedIds == {r.id : r \in lv.removed}

\* C6: activeEnemies stays within 0 and MAX_ENEMIES, and the slots below it
\* hold exactly the enemies spawned in the stage and not removed, each once.
C6_RegistryExact ==
  /\ 0 <= activeEnemies /\ activeEnemies <= MAX_ENEMIES
  /\ \A k, m \in 1..Len(enemies) : enemies[k].id = enemies[m].id => k = m
  /\ RegistryIds = lv.spawned \ RemovedIds

\* An enemy was removed and the last one took its slot.
C6_Witness ==
  /\ lv.removed # {}
  /\ \E k \in 1..(Len(enemies) - 1) : enemies[k].id > enemies[k + 1].id

\* C7: within a stage an enemy leaves the registry only when its death timer
\* expires: every enemy removed had health 0 and had stayed for DEATH_TIME
\* (120 calls of UpdateEnemies) since its health reached 0, none was removed
\* in the tick of its death, and no dead enemy stays longer than that.
C7_RemovedAtExpiry ==
  /\ RegistryIds \cup RemovedIds = lv.spawned
  /\ \A r \in lv.removed : r.health = 0 /\ r.age = DEATH_TIME - 1 /\ r.age > 0
  /\ \A k \in 1..Len(enemies) :
       enemies[k].health <= 0
         => /\ enemies[k].deathTimer > 0
            /\ enemies[k].deathTimer + enemies[k].g_deadTicks = DEATH_TIME

\* An enemy has been removed while another one is dying.
C7_Witness ==
  /\ lv.removed # {}
  /\ \E k \in 1..Len(enemies) : enemies[k].g_deadTicks > 0

\* C8: the death timer of a player is started once when its health reaches
\* 0 and never again after it ran out: from then on the player has health 0
\* and no running death timer.
C8_DeathTimerOnce ==
  \A j \in Participants :
    /\ players[j + 1].g_starts <= 1
    /\ players[j + 1].maxHealth > 0 /\ players[j + 1].health <= 0
         => players[j + 1].g_starts = 1 \/ players[j + 1].deathTimer = 0
    /\ players[j + 1].deathTimer < 0
         => players[j + 1].health = 0 /\ players[j + 1].g_starts = 1

\* The death timer of player 1 ran out while player 2 keeps the stage going.
C8_Witness ==
  /\ gameState = "PLAYING" /\ playerCount = 2
  /\ players[1].deathTimer < 0 /\ players[1].g_starts = 1
  /\ players[2].health > 0

\* C9: a player whose health is 0 is in state Dead and no key takes effect
\* on it, whatever happens to the enemy it held.
C9_DeadStaysDead ==
  \A j \in Participants :
    players[j + 1].maxHealth > 0 /\ players[j + 1].health = 0
      => players[j + 1].state = "DEAD" /\ ~ players[j + 1].g_deadInput

\* C10: a player's attack deals damage only when the current frame of the
\* attack's own animation is inside the hit window; in the tick that starts
\* the attack no damage is dealt.
C10_NoHitOnStartTick ==
  \A j \in Participants : ~ players[j + 1].g_startHit

\* C11: for every attack variant of a player, an enemy that first meets the
\* attack hitbox while the attack's clip is on the last frame of its hit
\* window is hit by that attack, and one that arrives when the frame is past
\* the window is not.
C11_LastFrameHits ==
  /\ env.arrived = "last" /\ env.ticks > env.arrive + 1
       => players[1].g_hits = 1
  /\ env.arrived = "past" => players[1].g_hits = 0

\* C12: every attack a player starts has ended (isAttacking false) no later
\* than ATTACK_TIMEOUT ticks after it started, whatever keys are pressed
\* during the swing.
C12_AttackEnds ==
  \A j \in Participants :
    players[j + 1].isAttacking => players[j + 1].g_age <= ATTACK_TIMEOUT

\* Every entry a of `phases` comes before every entry b.
Before(a, b) ==
  \A i, j \in 1..Len(phases) : phases[i] = a /\ phases[j] = b => i < j

\* The players and enemies that have run a phase in this step.
Updated == {phases[i].who : i \in 1..Len(phases)}

\* C13: within a fixed step every attacker's hit detection runs after its
\* physics integration and before its animation advancement, and all player
\* input is processed before any enemy AI.
C13_PhaseOrder ==
  /\ \A w \in Updated :
       /\ Before([who |-> w, phase |-> "physics"], [who |-> w, phase |-> "hit"])
       /\ Before([who |-> w, phase |-> "hit"], [who |-> w, phase |-> "animation"])
  /\ \A i, j \in 1..Len(phases) :
       phases[i].phase = "input" /\ phases[j].phase = "ai" => i < j

\* C14: the accumulator of a frame starts from what the frame before left
\* unconsumed plus the new clamped frame time, and between frames the time
\* simulated lags the summed frame time by less than one fixed step.
C14_RemainderCarried ==
  /\ pc # "frame" => accumulator + substeps * FIXED_DT = env.rest + env.dt
  /\ pc = "frame" => env.lag < FIXED_DT

\* C15: the stun DamageEntity gives a surviving target hit by a player is
\* strictly shorter than the stun it gives a player hit by an enemy.
C15_PlayerStunShorter ==
  \A k \in 1..Len(enemies), j \in 1..2 :
    enemies[k].g_stun > 0 /\ players[j].g_stun > 0
      => enemies[k].g_stun < players[j].g_stun

\* C16: when the AI step of a living enemy that is neither stunned nor held
\* runs with every living player beyond ENEMY_SIGHT_DIST, it leaves the
\* enemy in AI state Idle with horizontal velocity 0, whatever its AI state
\* was before.
C16_FarIdles ==
  \A k \in 1..Len(enemies) :
    enemies[k].g_ai.ran /\ enemies[k].g_ai.far
      => enemies[k].g_ai.aiState = "IDLE" /\ enemies[k].g_ai.vx = 0

\* C17: an enemy that survives a player's hit is in Retreat after the hit
\* and, while a living player exists, has cleared wasHurt (returning to
\* Chase) no later than the stun time plus the retreat time after the hit.
C17_RetreatEnds ==
  (\E j \in Participants : players[j + 1].health > 0)
    => \A k \in 1..Len(enemies) :
         enemies[k].health > 0 /\ enemies[k].wasHurt
           => /\ enemies[k].g_sinceHit = 0 => enemies[k].aiState = "RETREAT"
              /\ enemies[k].g_sinceHit <= RetreatBound

\* C18: on every tick on which its AI decides for a target, an enemy whose
\* maxHealth exceeds ENEMY_MAX_HEALTH is treated as boss-class (and no other
\* enemy is), whatever its current health.
C18_BossByMaxHealth ==
  \A k \in 1..Len(enemies) :
    enemies[k].g_ai.ran /\ enemies[k].g_ai.target
      => (enemies[k].g_ai.isBoss <=> enemies[k].maxHealth > ENEMY_MAX_HEALTH)

\* The phases the enemy with the given id has run in this fixed step.
PhasesOf(id) ==
  {phases[i].phase : i \in {n \in 1..Len(phases) :
                               phases[n].who = <<"enemy", id>>}}

\* C19: after UpdateEnemies a living enemy that a player holds is in state
\* Hurt with the hurt animation, has zero velocity, AI state Idle and is not
\* attacking, and neither its AI step nor its hit detection ran in the tick.
C19_HeldIsPassive ==
  pc = "level"
    => \A k \in 1..Len(enemies) :
         IsGrabbed(k - 1, players, playerCount) /\ enemies[k].health > 0
           => /\ enemies[k].state = "HURT"
              /\ enemies[k].currentAnimIndex = ANIM_HURT
              /\ enemies[k].vx = 0
              /\ enemies[k].aiState = "IDLE"
              /\ ~ enemies[k].isAttacking
              /\ ~ enemies[k].g_ai.ran
              /\ PhasesOf(enemies[k].id) \cap {"ai", "hit"} = {}

\* C20: DamageEntity with dmg > 0 leaves its target not attacking
\* (isAttacking false, attackDamage 0, attackHasHit false) and with an
\* attackCooldown of at least the recovery cooldown (0.5 s, or 0.8 s when the
\* attacker is a player); the target then lands no hit until it starts a fresh
\* attack, and it starts none before the recovery cooldown has elapsed.
C20_DamageCancelsAttack ==
  \A x \in {players[j + 1] : j \in Participants}
            \cup {enemies[k] : k \in 1..Len(enemies)} :
    x.g_rec.taken
      => /\ ~ x.g_rec.isAttacking
         /\ x.g_rec.attackDamage = 0
         /\ ~ x.g_rec.attackHasHit
         /\ x.g_rec.attackCooldown
              >= (IF x.g_rec.byPlayer THEN ENEMY_ATTACK_PUNCH_PROFILE.cooldown
                  ELSE ATTACK_COOLDOWN)
         /\ x.g_rec.stray = 0
         /\ ~ x.g_rec.early
         /\ x.g_rec.on => ~ x.isAttacking

\* A player was hit in the middle of an attack of its own and has started a
\* fresh attack after the recovery cooldown ran out.
C20_Witness ==
  /\ players[1].g_rec.taken /\ ~ players[1].g_rec.byPlayer
  /\ players[1].g_rec.cut /\ ~ players[1].g_rec.on
  /\ players[1].g_rec.left = 0
  /\ players[1].isAttacking

\* C21: a DamageEntity call whose damage is at least the target's health
\* (> 0), on a target whose death timer is 0, returns with health 0, the death
\* timer at DEATH_TIME, state Dead, stun timer 0, vertical velocity 0 and
\* grounded set.
C21_LethalHit ==
  \A x \in {players[j + 1] : j \in Participants}
            \cup {enemies[k] : k \in 1..Len(enemies)} :
    /\ x.g_rec.taken
    /\ x.g_rec.pre.health > 0 /\ x.g_rec.dmg >= x.g_rec.pre.health
    /\ x.g_rec.pre.deathTimer = 0
    => x.g_rec.post = [health |-> 0, deathTimer |-> DEATH_TIME, state |-> "DEAD",
                       stunTimer |-> 0, rising |-> FALSE, falling |-> FALSE,
                       grounded |-> TRUE]

\* A player was killed by a hit of exactly its health, after an enemy was
\* killed by a hit of more than its health.
C21_Witness ==
  /\ players[1].g_rec.taken /\ players[1].g_rec.pre.deathTimer = 0
  /\ players[1].g_rec.dmg = players[1].g_rec.pre.health
  /\ \E k \in 1..Len(enemies) :
       /\ enemies[k].g_rec.taken /\ enemies[k].g_rec.pre.health > 0
       /\ enemies[k].g_rec.dmg > enemies[k].g_rec.pre.health
       /\ enemies[k].g_rec.pre.deathTimer = 0

\* C22: after every UpdatePhysics call, whatever the position and the
\* velocity before it, the actor's X lies in [0, stage width - actor width]
\* (the width scaled for a boss) and its Y lies in [0, GROUND_Y].
C22_InsideStage ==
  actor.role = "body" /\ actor.calls > 0
    => /\ 0 <= actor.x
       /\ actor.x <= TILES_PER_ROW * TILE_SIZE
                       - (IF actor.maxHealth = BOSS_HEALTH
                          THEN (3 * PLAYER_WIDTH) \div 2 ELSE PLAYER_WIDTH)
       /\ 0 <= actor.y /\ actor.y <= GROUND_Y

\* A boss moving up and to the right beyond the stage was stopped at the
\* stage's top and right end.
C22_Witness ==
  /\ actor.role = "body" /\ actor.calls > 0 /\ actor.maxHealth = BOSS_HEALTH
  /\ actor.vx = HugeSpeed /\ actor.vy < 0 /\ actor.y = 0
  /\ actor.x = TILES_PER_ROW * TILE_SIZE - (3 * PLAYER_WIDTH) \div 2

\* C23: after an UpdatePhysics call, the final hitbox of the actor, regular
\* or boss, overlaps no solid tile.
C23_NoTileOverlap ==
  actor.role = "body" /\ actor.calls > 0
    => \A tx \in TileIndex(actor.hitbox.x)
                   ..TileIndex(actor.hitbox.x + actor.hitbox.width),
          ty \in (GROUND_Y \div TILE_SIZE)..(WORLD_ROWS - 1) :
         ~ CheckCollisionRecs(actor.hitbox,
             [x |-> tx * TILE_SIZE, y |-> ty * TILE_SIZE,
              width |-> TILE_SIZE, height |-> TILE_SIZE])

\* C24: at the end of every tick the hitbox of each living actor is the
\* rectangle derived from its current position (with the boss offset for a
\* scaled actor): of every living player and of every living enemy in the
\* registry, whether it ran physics in the tick, is stunned, or is held and
\* re-positioned by a player.
C24_HitboxFollows ==
  pc = "end"
    => /\ \A j \in Participants :
            players[j + 1].health > 0 => players[j + 1].hitboxAtPos
       /\ \A k \in 1..Len(enemies) :
            enemies[k].health > 0 => enemies[k].hitboxAtPos

\* C25: in every reachable state the countdown timers stunTimer, deathTimer,
\* attackCooldown and aiTimer of every player and of every enemy in the
\* registry are >= 0: a timer that runs out stops at 0.
C25_TimersNonNegative ==
  \A x \in {players[j + 1] : j \in Participants}
            \cup {enemies[k] : k \in 1..Len(enemies)} :
    /\ x.stunTimer >= 0 /\ x.deathTimer >= 0
    /\ x.attackCooldown >= 0 /\ x.aiTimer >= 0

\* C26: input is locked while the player is stunned or in state Attack, Hurt
\* or Dead when ProcessPlayerInput reads the keys: no key takes effect in
\* that call; and once a call has started an attack, no later input action
\* of the same call (a grab, a release) takes effect.
C26_InputLocked ==
  \A j \in Participants :
    /\ players[j + 1].g_locked => ~ players[j + 1].g_acted
    /\ ~ players[j + 1].g_late

\* C27: after any number of UpdateAnimation calls on any animation value the
\* frame index is in 0 .. max(totalFrames - 1, 0); a call on a value whose
\* index is inside the clip never lowers the index (totalFrames is not
\* changed by the call), and an index at the last frame stays there.
C27_FrameBounded ==
  actor.role = "clip" /\ actor.calls > 0
    => /\ actor.anim.totalFrames = actor.before.totalFrames
       /\ 0 <= actor.anim.currentFrame
       /\ actor.anim.currentFrame <= Max(actor.anim.totalFrames - 1, 0)
       /\ (0 <= actor.before.currentFrame
           /\ actor.before.currentFrame <= Max(actor.before.totalFrames - 1, 0))
          => /\ actor.anim.currentFrame >= actor.before.currentFrame
             /\ actor.before.currentFrame = actor.before.totalFrames - 1
                => actor.anim.currentFrame = actor.before.currentFrame

\* A clip of five frames was played from its first frame to its last, and a
\* further call whose timer passed a whole frame left it at the last frame.
C27_Witness ==
  /\ actor.role = "clip" /\ actor.calls > 30
  /\ actor.anim.totalFrames = 5 /\ actor.before.currentFrame = 4
  /\ actor.before.timer + ANIM_SLOW_STEP >= ANIM_ONE
  /\ actor.anim.currentFrame = 4

\* C28: a release of the grab input by a player holding a living enemy
\* leaves the enemy with the throw velocity, 400 horizontally and 200
\* upward, and with its health lowered by exactly 5, not below 0, by
\* DamageEntity; at the end of the input processing that threw it the
\* player holds nothing and is Idle.
C28_Throw ==
  /\ \A k \in 1..Len(enemies) :
       enemies[k].g_throw.on
         => /\ enemies[k].g_throw.x = THROW_VELOCITY_X
            /\ enemies[k].g_throw.y = THROW_VELOCITY_Y
            /\ enemies[k].g_throw.to = Max(enemies[k].g_throw.from - THROW_DAMAGE, 0)
            /\ enemies[k].g_rec.taken
            /\ enemies[k].g_throw.ref = -1 /\ enemies[k].g_throw.state = "IDLE"

\* C29: when the grab input is released while a player holds an enemy, the
\* hold ends in that tick, whatever the player's state: no player whose last
\* input processing saw the release while holding still holds an enemy.
C29_ReleaseEndsHold ==
  \A j \in Participants :
    players[j + 1].g_stuck => players[j + 1].grabbedEnemyIndex = -1

\* C30: no actor whose health is 0 is selected as the target of an enemy's
\* AI, grabbed, or passed to DamageEntity as the target: the player an AI
\* step chose, the enemy a grab took and the target of every DamageEntity
\* call (an enemy's hit, a player's hit, a throw) had health > 0 then.
C30_LivingTargets ==
  /\ \A k \in 1..Len(enemies) :
       /\ enemies[k].g_ai.ran /\ enemies[k].g_ai.target => enemies[k].g_ai.hp > 0
       /\ enemies[k].g_grabHp # -1 => enemies[k].g_grabHp > 0
       /\ enemies[k].g_rec.taken => enemies[k].g_rec.pre.health > 0
       /\ enemies[k].g_throw.on => enemies[k].g_throw.from > 0
  /\ \A j \in Participants :
       players[j + 1].g_rec.taken => players[j + 1].g_rec.pre.health > 0

\* With one of two players dead and a dead enemy still in the registry, an
\* enemy that was grabbed and thrown chose the living player as its target.
C30_Witness ==
  /\ playerCount = 2 /\ players[1].health = 0 /\ players[1].g_rec.taken
  /\ \E k \in 1..Len(enemies) :
       /\ enemies[k].g_ai.ran /\ enemies[k].g_ai.target
       /\ enemies[k].g_throw.on /\ enemies[k].g_grabHp > 0
  /\ lv.removed # {}

\* C31: whenever a player's grab reference is not none and passes the
\* revalidation (the index is below activeEnemies and the enemy in that slot
\* has health > 0), the slot holds the enemy the player grabbed.
C31_SameEnemyHeld ==
  \A j \in Participants :
    LET idx == players[j + 1].grabbedEnemyIndex
    IN idx # -1 /\ idx >= 0 /\ idx < Len(enemies) /\ enemies[idx + 1].health > 0
         => enemies[idx + 1].id = players[j + 1].g_heldId

\* C32: an UpdateEnemies call comes exactly once to every enemy that is in
\* the registry when it starts, the enemy moved into a freed slot included,
\* and to no slot at an index >= activeEnemies: after the call every enemy
\* in the registry and every enemy the stage has removed was seen once, at
\* an index below activeEnemies, and no spawned enemy is missing from both.
C32_EachEnemyOnce ==
  pc = "level"
    => /\ \A k \in 1..Len(enemies) :
            /\ enemies[k].g_seen = 1
            /\ 0 <= enemies[k].g_slot.i /\ enemies[k].g_slot.i < enemies[k].g_slot.n
       /\ \A r \in lv.removed : r.seen = 1 /\ 0 <= r.slot.i /\ r.slot.i < r.slot.n
       /\ RegistryIds \cup RemovedIds = lv.spawned

\* An enemy was removed from a slot that was not the last, and the enemy
\* moved into that slot was updated in the same call.
C32_Witness ==
  /\ pc = "level"
  /\ \E r \in lv.removed, k \in 1..Len(enemies) :
       /\ r.slot.i = k - 1 /\ r.slot.n > k
       /\ enemies[k].g_slot.i = k - 1 /\ enemies[k].g_slot.n = r.slot.n - 1
       /\ enemies[k].g_seen = 1 /\ enemies[k].health > 0

\* C33: an enemy does not stay held by a player who has died: once the
\* death countdown of a player with health 0 has finished (DEATH_TIME ticks
\* after the death) and the game plays on, the player holds no enemy.
C33_DeadHolderReleases ==
  pc = "frame" /\ gameState = "PLAYING"
    => \A j \in Participants :
         players[j + 1].health <= 0 /\ players[j + 1].deathTimer < 0
           => players[j + 1].grabbedEnemyIndex = -1

\* C34: an enemy is held by at most one player: no two players have the
\* same grab reference.
C34_OneHolder ==
  \A i, j \in Participants :
    players[i + 1].grabbedEnemyIndex # -1
    /\ players[i + 1].grabbedEnemyIndex = players[j + 1].grabbedEnemyIndex
      => i = j


BossIds(es) == {es[k].id : k \in {i \in 1..Len(es) : es[i].maxHealth > ENEMY_MAX_HEALTH}}

StageDone ==
  /\ lv.enemiesRemainingToSpawn <= 0
  /\ \A k \in 1..Len(enemies) : enemies[k].health <= 0
  /\ lv.stageHasBoss => lv.bossDefeated

C38_WithinCap ==
  [][/\ lv'.hasStageDef
          => /\ lv'.maxConcurrentEnemies
                  = STAGE_DEFS[lv'.currentStage + 1].concurrentCap
             /\ Len(enemies') <= lv'.maxConcurrentEnemies
     /\ pc = "level" /\ Len(enemies') > Len(enemies)
          => /\ Len(enemies') = Len(enemies) + 1
             /\ IF BossIds(enemies') = {}
                THEN /\ Len(enemies) < lv.maxConcurrentEnemies
                     /\ Len(enemies) < MAX_ENEMIES
                ELSE enemies = << >>
     /\ pc \in {"frame", "end"} /\ enemies' # enemies
          => /\ Len(enemies') = STAGE_DEFS[lv'.currentStage + 1].initialWave
             /\ Len(enemies') <= lv'.maxConcurrentEnemies
             /\ BossIds(enemies') = {}]_vars

\* The registry is at the cap while spawn quota remains: the director waits.
C38_Witness ==
  /\ lv.hasStageDef /\ pc = "end"
  /\ Len(enemies) = lv.maxConcurrentEnemies
  /\ lv.enemiesRemainingToSpawn > 0

\* The regular enemies spawned so far in the stage: the initial wave and the
\* timed spawns.
RegularSpawned == Cardinality(lv.spawned) - lv.g_bosses

\* C39: in every state of a stage the regular enemies spawned so far plus
\* enemiesRemainingToSpawn make the stage's spawnQuota, and
\* enemiesRemainingToSpawn is not negative.
C39_QuotaAccounted ==
  /\ lv.enemiesRemainingToSpawn >= 0
  /\ lv.hasStageDef
       => RegularSpawned + lv.enemiesRemainingToSpawn
            = STAGE_DEFS[lv.currentStage + 1].spawnQuota

\* All of the quota of a stage has been spawned, part of it by the timer.
C39_Witness ==
  /\ lv.hasStageDef /\ lv.enemiesRemainingToSpawn = 0
  /\ RegularSpawned = STAGE_DEFS[lv.currentStage + 1].spawnQuota
  /\ RegularSpawned > STAGE_DEFS[lv.currentStage + 1].initialWave

\* C40: in the step that advances to the next stage every participant keeps
\* its health, a participant at health 0 is in state DEAD afterwards and a
\* living one in state IDLE, every other field of it is as InitPlayer
\* leaves it, and the registry holds the initial wave of the new stage,
\* newly initialised, and nothing else.
C40_StageReset ==
  [][gameState = "PLAYING" /\ lv'.currentStage # lv.currentStage
       => /\ playerCount' = playerCount
          /\ \A j \in Participants :
               /\ players'[j + 1].health = players[j + 1].health
               /\ players[j + 1].health <= 0
                    => players'[j + 1].health = 0 /\ players'[j + 1].state = "DEAD"
               /\ players[j + 1].health > 0 => players'[j + 1].state = "IDLE"
               /\ [players'[j + 1] EXCEPT !.health = PLAYER_MAX_HEALTH,
                                          !.state = "IDLE"] = InitPlayer
          /\ Len(enemies') = STAGE_DEFS[lv'.currentStage + 1].initialWave
          /\ \A k \in 1..Len(enemies') :
               [enemies'[k] EXCEPT !.hitboxAtPos = TRUE]
                 = [InitEnemy(k) EXCEPT !.hitboxAtPos = TRUE]
          /\ lv'.spawned = 1..Len(enemies') /\ lv'.removed = {}]_vars

\* A new stage has just begun for two players, one of them dead and the
\* other one alive.
C40_Witness ==
  /\ pc = "frame" /\ gameState = "PLAYING" /\ lv.currentStage > 0
  /\ lv.spawnTimer = 0 /\ lv.removed = {}
  /\ Len(enemies) = STAGE_DEFS[lv.currentStage + 1].initialWave
  /\ \A k \in 1..Len(enemies) : enemies[k].aiTimer = 0 /\ ~ enemies[k].g_ai.ran
  /\ playerCount = 2
  /\ players[2].health = 0 /\ players[2].state = "DEAD" /\ players[2].deathTimer = 0
  /\ players[1].health > 0 /\ players[1].grabbedEnemyIndex = -1
====
